---- MODULE Spec2Model ----
(***************************************************************************)
(* A model of pandoc-hwpx's document assembly engine:                      *)
(*   - the line-segment estimator   (src/pandoc_hwpx/lineseg.py),          *)
(*   - the table layout engine      (converter.py, _handle_table),         *)
(*   - the character-style registry (converter.py, _get_*_char_pr_id),     *)
(*   - construction, the tree walk's style references and finalization.    *)
(* Each component has its own specification over the shared variables.     *)
(***************************************************************************)
EXTENDS Integers, Sequences, FiniteSets, TLC

VARIABLES
    \* ---- line-segment estimator: one call of compute_lineseg_xml
    ls_pc,          \* "idle" | "done"
    ls_in,          \* the arguments of the call
    ls_out,         \* the returned sequence of <hp:lineseg> entries
    \* ---- table layout engine: one call of _handle_table
    tbl_pc,         \* "start" | "row" | "done" | "empty" (returned '')
    tbl_in,         \* the table: its rows of cells and len(specs)
    col_cnt,
    col_widths,
    occupied_cells, \* set of <<row, col>>
    curr_row_addr,
    curr_col_addr,
    cell_idx,       \* position of the inner loop in the current row (1-based)
    tbl_cells,      \* the <hp:tc> elements emitted so far, in order
    \* ---- one converter instance (PandocHwpxConverter)
    cv_pc,          \* "new" | "title" | "toc" | "blocks" | "done" |
                    \* "aborted" (the constructor raised) | "ready"
    template,       \* the reference document handed to the constructor
    use_reference,
    header_root,    \* the parsed header tree, or NoHeader (None)
    char_pr_cache,  \* (base id, format set) -> charPr id
    max_char_pr_id,
    max_para_pr_id,
    dynamic_style_map,
    normal_style_id,
    normal_para_pr_id,
    normal_char_pr_id,
    table_border_fill_id,
    warnings,       \* number of "[Warn]" lines written to stderr
    last_call,      \* the latest direct resolver call: base, mods, ret, repeat
    resolved,       \* (base, mods) -> the id its first resolution returned
    doc,            \* the document tree and options being converted
    cv_i,           \* index of the block _process_blocks is at
    refs,           \* <<table, id>> references emitted into the section
    final,          \* the style tables of the written header
    body_parts,     \* the paragraphs of the body, by the kind of their text
    \* ---- the id generators and the instances of one process
    id_pc,          \* "idle" | "run"
    para_id_counter,\* the module-level _para_id_counter
    clock,          \* time.time() in milliseconds
    ticks,          \* how often the clock advanced
    inst,           \* instance -> its fields and the ids it was handed
    para_issued,    \* every value _next_para_id returned, in order
    \* ---- images and the package writer (_handle_image, _write_hwpx)
    pk_pc,          \* "walk" | "entries" | "images" | "move" | "done" |
                    \* "failed" (an exception left _write_hwpx) | "idle"
    pk_in,          \* the images of the tree, and whether the output exists
    pk_i,           \* position of the current loop
    pics,           \* the <hp:pic> nodes emitted into the content
    images,         \* self.images
    src_file,       \* the template archive
    tmp_file,       \* the temporary archive
    dst_file,       \* the file at output_path
    pk_warned,      \* ids of the images "[Warn] Image not found" was printed for
    pk_raised,      \* "no", or the step whose exception reached the caller
    \* ---- one run of the command line entry point (main)
    cli_pc,         \* "read" | "parse" | "construct" | "walk" | "write" |
                    \* "exit" | "idle"
    cli_in,         \* what standard input holds
    cli_i,          \* the block the walk is at
    cli_exit,       \* the exit status once cli_pc = "exit"
    cli_walked,     \* the whole tree was walked without an exception
    cli_archive,    \* "none" | "attempted" | "written": the temporary or
                    \* destination archive was created / completed
    cli_errors,     \* what was written to stderr
    \* ---- one path of nesting through lists and block quotes
    li_pc,          \* "dispatch" (in _process_blocks) | "native" (in a
                    \* native list handler) | "done" | "idle"
    li_in,          \* the nesting and whether a reference header is in use
    li_k,           \* position on the path
    li_level,       \* indent_level of the dispatcher / level of the handler
    li_dispatched,  \* item blocks handed to the dispatcher by list handlers
    li_emitted,     \* paragraphs rendered, with their level
    li_lists,       \* the native list invocations: position on the path,
                    \* level and the numbering definition created
    \* ---- one walk of an inline list
    in_pc,          \* "walk" | "done" | "idle"
    in_tokens,      \* the inline list, as tokens
    in_p,           \* the token the walk is at
    in_stack,       \* the activations of _process_inlines, outermost first
    in_runs,        \* the text runs emitted: node position, format set
    in_fields,      \* the hyperlink field begins and ends emitted
    last_field_id,  \* self._last_field_id (0: not set)
    in_next_id      \* the id the next field begin gets

lsVars == <<ls_pc, ls_in, ls_out>>

tblVars == <<tbl_pc, tbl_in, col_cnt, col_widths, occupied_cells,
             curr_row_addr, curr_col_addr, cell_idx, tbl_cells>>

regVars == <<use_reference, header_root, char_pr_cache, max_char_pr_id,
             max_para_pr_id, dynamic_style_map, normal_style_id,
             normal_para_pr_id, normal_char_pr_id, table_border_fill_id>>

cvVars == <<cv_pc, template, regVars, warnings, last_call, resolved, doc, cv_i,
           refs, final, body_parts>>

idVars == <<id_pc, para_id_counter, clock, ticks, inst, para_issued>>

pkVars == <<pk_pc, pk_in, pk_i, pics, images, src_file, tmp_file, dst_file,
           pk_warned, pk_raised>>

cliVars == <<cli_pc, cli_in, cli_i, cli_exit, cli_walked, cli_archive,
            cli_errors>>

liVars == <<li_pc, li_in, li_k, li_level, li_dispatched, li_emitted,
           li_lists>>

inVars == <<in_pc, in_tokens, in_p, in_stack, in_runs, in_fields,
           last_field_id, in_next_id>>

vars == <<lsVars, tblVars, cvVars, idVars, pkVars, cliVars, liVars, inVars>>

\* What an action of one component leaves alone: the other components.
notLs == <<tblVars, cvVars, idVars, pkVars, cliVars, liVars, inVars>>
notTbl == <<lsVars, cvVars, idVars, pkVars, cliVars, liVars, inVars>>
notCv == <<lsVars, tblVars, idVars, pkVars, cliVars, liVars, inVars>>
notId == <<lsVars, tblVars, cvVars, pkVars, cliVars, liVars, inVars>>
notPk == <<lsVars, tblVars, cvVars, idVars, cliVars, liVars, inVars>>
notCli == <<lsVars, tblVars, cvVars, idVars, pkVars, liVars, inVars>>
notLi == <<lsVars, tblVars, cvVars, idVars, pkVars, cliVars, inVars>>
notIn == <<lsVars, tblVars, cvVars, idVars, pkVars, cliVars, liVars>>

(***************************************************************************)
(* Helpers                                                                 *)
(***************************************************************************)
Max(a, b) == IF a >= b THEN a ELSE b

SetMax(S) == CHOOSE x \in S : \A y \in S : y <= x

SeqsUpTo(S, n) == UNION {[1..k -> S] : k \in 0..n}

RECURSIVE SumSeq(_)
SumSeq(s) == IF s = <<>> THEN 0 ELSE s[1] + SumSeq(Tail(s))

(***************************************************************************)
(* 1. Line-segment estimator (lineseg.py)                                  *)
(***************************************************************************)
PAGE_TEXT_WIDTH == 42520
CHAR_HEIGHT_NORMAL == 1000
LINE_SPACING_PCT == 160
CJK_THRESHOLD == 8192          \* 0x2000
FLAG_FIRST_LAST == 393216      \* 0x60000
FLAG_FIRST == 131072           \* 0x20000
FLAG_LAST == 262144            \* 0x40000

\* Bounds and input sets of the estimator's specification.
MaxLen == 4
CodePoints == {65, 8192, 8193}            \* 'A', U+2000 (not above), U+2001
CharHeights == {CHAR_HEIGHT_NORMAL, 1301}
HorzSizes == {0, 500, 1000, 1600, PAGE_TEXT_WIDTH}

\* lineseg.py 55-58: the estimated width of one character.
CharWidth(ch, char_height) ==
    IF ch > CJK_THRESHOLD THEN char_height ELSE char_height \div 2

\* lineseg.py 51-62: the loop over enumerate(text).  i is the 1-based index
\* of the character being added (the code's i + 1), so the offset appended
\* by the code, i + 1, is this i.
RECURSIVE LineStartsNoReset(_, _, _, _, _, _)
LineStartsNoReset(text, char_height, horzsize, i, current_width, line_starts) ==
    IF i > Len(text) THEN line_starts
    ELSE LET w == current_width + CharWidth(text[i], char_height)
         IN  IF w > horzsize /\ i < Len(text)
             THEN LineStartsNoReset(text, char_height, horzsize, i + 1, w,
                                    Append(line_starts, i))
             ELSE LineStartsNoReset(text, char_height, horzsize, i + 1, w,
                                    line_starts)

RECURSIVE LineStartsBreakAtEnd(_, _, _, _, _, _)
LineStartsBreakAtEnd(text, char_height, horzsize, i, current_width, line_starts) ==
    IF i > Len(text) THEN line_starts
    ELSE LET w == current_width + CharWidth(text[i], char_height)
         IN  IF w > horzsize
             THEN LineStartsBreakAtEnd(text, char_height, horzsize, i + 1, 0,
                                       Append(line_starts, i))
             ELSE LineStartsBreakAtEnd(text, char_height, horzsize, i + 1, w,
                                       line_starts)

RECURSIVE LineStarts(_, _, _, _, _, _)
LineStarts(text, char_height, horzsize, i, current_width, line_starts) ==
    IF i > Len(text) THEN line_starts
    ELSE LET w == current_width + CharWidth(text[i], char_height)
         IN  IF w > horzsize /\ i < Len(text)
             THEN LineStarts(text, char_height, horzsize, i + 1, 0,
                             Append(line_starts, i))
             ELSE LineStarts(text, char_height, horzsize, i + 1, w,
                             line_starts)

\* lineseg.py 69-76: the flags of entry idx (0-based) of num_lines entries.
LineFlagsFirstOnly(idx, num_lines) ==
    IF idx = 0 THEN FLAG_FIRST
    ELSE IF idx = num_lines - 1 THEN FLAG_LAST
    ELSE 0

LineFlags(idx, num_lines) ==
    IF num_lines = 1 THEN FLAG_FIRST_LAST
    ELSE IF idx = 0 THEN FLAG_FIRST
    ELSE IF idx = num_lines - 1 THEN FLAG_LAST
    ELSE 0

\* lineseg.py 36-38 (positive heights: int() of the quotient is its floor).
LineSpacing(char_height, line_spacing_pct) ==
    (char_height * (line_spacing_pct - 100)) \div 100

\* lineseg.py 15-86: the attributes of the returned entries that depend on
\* the text: textpos, vertpos and flags.
compute_lineseg_xml(text, char_height, line_spacing_pct, horzsize) ==
    LET line_height == char_height + LineSpacing(char_height, line_spacing_pct)
    IN  IF text = <<>>
        THEN << [textpos |-> 0, vertpos |-> 0, flags |-> FLAG_FIRST_LAST] >>
        ELSE LET line_starts ==
                     LineStarts(text, char_height, horzsize, 1, 0, <<0>>)
                 num_lines == Len(line_starts)
             IN  [k \in 1..num_lines |->
                     [textpos |-> line_starts[k],
                      vertpos |-> (k - 1) * line_height,
                      flags   |-> LineFlags(k - 1, num_lines)]]

LsInit ==
    /\ ls_pc = "idle"
    /\ ls_in = [text |-> <<>>, char_height |-> CHAR_HEIGHT_NORMAL,
                horzsize |-> PAGE_TEXT_WIDTH]
    /\ ls_out = <<>>

\* One call of compute_lineseg_xml on arbitrary arguments.
LsCall ==
    /\ ls_pc = "idle"
    /\ \E text \in SeqsUpTo(CodePoints, MaxLen), h \in CharHeights,
         w \in HorzSizes :
          /\ ls_in' = [text |-> text, char_height |-> h, horzsize |-> w]
          /\ ls_out' = compute_lineseg_xml(text, h, LINE_SPACING_PCT, w)
          /\ ls_pc' = "done"
    /\ UNCHANGED notLs

LsNext == LsCall

(***************************************************************************)
(* 2. Table layout engine (converter.py, _handle_table)                    *)
(***************************************************************************)
\* Bounds and input sets.  A cell is its (rowspan, colspan); a row is the
\* sequence of its cells; specs is len(specs), the declared column count.
MaxRows == 2
MaxSpecs == 7
CellShapes == [rowspan : {1, 2}, colspan : {1, 2}]
RowShapes == SeqsUpTo(CellShapes, 2)
TableInputs ==
    [rows : UNION {[1..n -> RowShapes] : n \in 0..MaxRows}, specs : 0..MaxSpecs]

\* converter.py 1240-1247: col_cnt, from the specs or the first row.
ColCnt(specs, all_rows) ==
    IF specs # 0 THEN specs ELSE Len(all_rows[1])

\* converter.py 1253-1255: one unit per column from the left,
\* for i in range(remainder): col_widths[i % col_cnt] += 1   (i is 0-based).
RECURSIVE DistributeFromRight(_, _, _)
DistributeFromRight(widths, i, remainder) ==
    IF i >= remainder THEN widths
    ELSE DistributeFromRight(
             [widths EXCEPT ![Len(widths) - (i % Len(widths))] = @ + 1],
             i + 1, remainder)

RECURSIVE DistributeRemainder(_, _, _)
DistributeRemainder(widths, i, remainder) ==
    IF i >= remainder THEN widths
    ELSE DistributeRemainder(
             [widths EXCEPT ![(i % Len(widths)) + 1] = @ + 1],
             i + 1, remainder)

\* converter.py 1250-1255
ColWidths(page_width, n) ==
    LET even == [i \in 1..n |-> page_width \div n]
    IN  DistributeRemainder(even, 0, page_width - SumSeq(even))

\* converter.py 1305-1306: while (row, col) in occupied_cells: col += 1
SkipNothing(occupied, row, col) == col

RECURSIVE SkipOccupied(_, _, _)
SkipOccupied(occupied, row, col) ==
    IF <<row, col>> \in occupied
    THEN SkipOccupied(occupied, row, col + 1)
    ELSE col

\* converter.py 1316-1319: the coordinates a cell claims.
SpanCoordsAnchorRowOnly(row, col, rowspan, colspan) ==
    {<<row, col + c>> : c \in 0..(colspan - 1)}

SpanCoords(row, col, rowspan, colspan) ==
    {<<row + r, col + c>> : r \in 0..(rowspan - 1), c \in 0..(colspan - 1)}

\* converter.py 1322-1328: the width of a cell at actual_col spanning colspan.
RECURSIVE CellWidth(_, _, _, _, _)
CellWidth(widths, page_width, n, actual_col, colspan) ==
    IF colspan = 0 THEN 0
    ELSE LET idx == actual_col + colspan - 1
         IN  (IF idx < Len(widths) THEN widths[idx + 1] ELSE page_width \div n)
             + CellWidth(widths, page_width, n, actual_col, colspan - 1)

TblInit ==
    /\ tbl_pc = "start"
    /\ tbl_in \in TableInputs
    /\ col_cnt = 0
    /\ col_widths = <<>>
    /\ occupied_cells = {}
    /\ curr_row_addr = 0
    /\ curr_col_addr = 0
    /\ cell_idx = 1
    /\ tbl_cells = <<>>

\* converter.py 1237-1238, 1246-1247: nothing is emitted for a table without
\* rows or without columns.
TblEmpty ==
    /\ tbl_pc = "start"
    /\ \/ tbl_in.rows = <<>>
       \/ /\ tbl_in.rows # <<>>
          /\ ColCnt(tbl_in.specs, tbl_in.rows) = 0
    /\ tbl_pc' = "empty"
    /\ UNCHANGED <<tbl_in, col_cnt, col_widths, occupied_cells, curr_row_addr,
                   curr_col_addr, cell_idx, tbl_cells>>
    /\ UNCHANGED notTbl

\* converter.py 1240-1297: counts, widths, the table's opening, the empty
\* occupied-cell set; converter.py 1303: the first row's cursor.
TblBegin ==
    /\ tbl_pc = "start"
    /\ tbl_in.rows # <<>>
    /\ ColCnt(tbl_in.specs, tbl_in.rows) # 0
    /\ col_cnt' = ColCnt(tbl_in.specs, tbl_in.rows)
    /\ col_widths' = ColWidths(PAGE_TEXT_WIDTH, col_cnt')
    /\ occupied_cells' = {}
    /\ curr_row_addr' = 0
    /\ curr_col_addr' = 0
    /\ cell_idx' = 1
    /\ tbl_pc' = "row"
    /\ UNCHANGED <<tbl_in, tbl_cells>>
    /\ UNCHANGED notTbl

\* converter.py 1304-1357: one iteration of the loop over a row's cells.
TblCell ==
    /\ tbl_pc = "row"
    /\ curr_row_addr < Len(tbl_in.rows)
    /\ cell_idx <= Len(tbl_in.rows[curr_row_addr + 1])
    /\ LET cell == tbl_in.rows[curr_row_addr + 1][cell_idx]
           actual_col == SkipOccupied(occupied_cells, curr_row_addr, curr_col_addr)
           cell_width == CellWidth(col_widths, PAGE_TEXT_WIDTH, col_cnt,
                                   actual_col, cell.colspan)
       IN  /\ occupied_cells' = occupied_cells \cup
                 SpanCoords(curr_row_addr, actual_col, cell.rowspan, cell.colspan)
           /\ tbl_cells' = Append(tbl_cells,
                 [rowAddr |-> curr_row_addr, colAddr |-> actual_col,
                  rowSpan |-> cell.rowspan, colSpan |-> cell.colspan,
                  width |-> cell_width])
           /\ curr_col_addr' = actual_col + cell.colspan
    /\ cell_idx' = cell_idx + 1
    /\ UNCHANGED <<tbl_pc, tbl_in, col_cnt, col_widths, curr_row_addr>>
    /\ UNCHANGED notTbl

\* converter.py 1359-1360 and 1303: the row is closed, the next one starts
\* with the cursor at column 0.
TblRowEnd ==
    /\ tbl_pc = "row"
    /\ curr_row_addr < Len(tbl_in.rows)
    /\ cell_idx > Len(tbl_in.rows[curr_row_addr + 1])
    /\ curr_row_addr' = curr_row_addr + 1
    /\ curr_col_addr' = 0
    /\ cell_idx' = 1
    /\ UNCHANGED <<tbl_pc, tbl_in, col_cnt, col_widths, occupied_cells, tbl_cells>>
    /\ UNCHANGED notTbl

\* converter.py 1362-1365: all rows processed.
TblEnd ==
    /\ tbl_pc = "row"
    /\ curr_row_addr = Len(tbl_in.rows)
    /\ tbl_pc' = "done"
    /\ UNCHANGED <<tbl_in, col_cnt, col_widths, occupied_cells, curr_row_addr,
                   curr_col_addr, cell_idx, tbl_cells>>
    /\ UNCHANGED notTbl

TblNext == TblEmpty \/ TblBegin \/ TblCell \/ TblRowEnd \/ TblEnd

(***************************************************************************)
(* 3. Style registry (converter.py: construction and the resolvers)        *)
(***************************************************************************)
HEADING_CHAR_PR_IDS == {7, 8, 9}       \* the ids of HEADING_CHAR_PROPS
CODE_CHAR_PR_ID == 10
TABLE_BORDER_FILL_ID == 3

\* HEADING_STYLE: level -> (styleIDRef, paraPrIDRef, charPrIDRef)
HEADING_STYLE ==
    [level \in 1..6 |->
        CASE level = 1 -> <<2, 2, 7>>
          [] level = 2 -> <<3, 3, 8>>
          [] level = 3 -> <<4, 4, 9>>
          [] level = 4 -> <<5, 5, 0>>
          [] level = 5 -> <<6, 6, 0>>
          [] level = 6 -> <<7, 7, 0>>]

\* A <hh:charPr> node: the children and attributes the resolver reads or
\* writes.  underline and strikeout are "absent" or the element's type/shape.
PlainCharPr ==
    [bold |-> FALSE, italic |-> FALSE, underline |-> "NONE",
     ulColor |-> "#000000", strikeout |-> "NONE", supscript |-> FALSE,
     subscript |-> FALSE, textColor |-> "#000000"]

\* A header tree: charPr is id -> node, paraPr the <hh:paraPr> in document
\* order (id, outline level if any), styles the <hh:style> in document
\* order, borderFills the ids under <hh:borderFills> when that element exists,
\* fillListMarker whether the text contains </hh:borderFillList>.
NoHeader ==
    [present |-> FALSE, charPr |-> <<>>, paraPr |-> <<>>, styles |-> <<>>,
     hasBorderFills |-> FALSE, borderFills |-> {}, fillListMarker |-> FALSE]

Header(charPr, paraPr, styles, hasBorderFills, borderFills) ==
    [present |-> TRUE, charPr |-> charPr, paraPr |-> paraPr, styles |-> styles,
     hasBorderFills |-> hasBorderFills, borderFills |-> borderFills,
     fillListMarker |-> FALSE]

\* A paraPr without <hh:heading level=...> has heading FALSE.
PlainParaPr(id) == [id |-> id, heading |-> FALSE, level |-> 0]
OutlineParaPr(id, level) == [id |-> id, heading |-> TRUE, level |-> level]
Style(id, p, c) == [id |-> id, paraPrIDRef |-> p, charPrIDRef |-> c]

\* The reference documents handed to the constructor.  archive: whether
\* zipfile can open it and read Contents/header.xml; xml: whether the header
\* parses; numeric: whether every id attribute is a decimal number.
Tpl(name, archive, xml, numeric, header) ==
    [given |-> TRUE, name |-> name, archive |-> archive, xml |-> xml,
     numeric |-> numeric, header |-> header]

NoTemplate ==
    [given |-> FALSE, name |-> "none", archive |-> "ok", xml |-> "ok",
     numeric |-> TRUE, header |-> NoHeader]

TypicalHeader ==
    Header([i \in 0..6 |-> PlainCharPr],
           <<PlainParaPr(0), PlainParaPr(1), OutlineParaPr(2, 0), OutlineParaPr(3, 1)>>,
           <<Style(0, 0, 0), Style(1, 1, 1), Style(2, 2, 5), Style(3, 3, 6)>>,
           TRUE, {1, 2})

NoOutlineHeader ==
    Header([i \in 0..6 |-> PlainCharPr],
           <<PlainParaPr(0), PlainParaPr(1)>>,
           <<Style(0, 0, 0), Style(1, 1, 1)>>,
           TRUE, {1, 2})

\* No charPr 0 and no style 0; no <hh:borderFills>.
NoZeroHeader ==
    Header([i \in 1..2 |-> PlainCharPr],
           <<PlainParaPr(1)>>,
           <<Style(1, 1, 1)>>,
           FALSE, {})

\* The normal character style is a subscript style.
SubscriptHeader ==
    Header([i \in 0..1 |-> [PlainCharPr EXCEPT !.subscript = TRUE]],
           <<PlainParaPr(0)>>,
           <<Style(0, 0, 0)>>,
           TRUE, {1})

ParsableTemplates ==
    { Tpl("typical", "ok", "ok", TRUE, TypicalHeader),
      Tpl("no_outline", "ok", "ok", TRUE, NoOutlineHeader),
      Tpl("no_zero", "ok", "ok", TRUE, NoZeroHeader),
      Tpl("subscript", "ok", "ok", TRUE, SubscriptHeader) }

DegradedTemplates ==
    { Tpl("malformed_xml", "ok", "malformed", TRUE, NoHeader),
      Tpl("non_numeric_id", "ok", "ok", FALSE, TypicalHeader),
      Tpl("non_numeric_id_small", "ok", "ok", FALSE, NoZeroHeader),
      Tpl("bad_zip", "bad_zip", "ok", TRUE, NoHeader),
      Tpl("no_header_entry", "no_header_entry", "ok", TRUE, NoHeader) }

Templates == {NoTemplate} \cup ParsableTemplates \cup DegradedTemplates

\* ---- construction

\* converter.py 126-139: the fields before the template is loaded.
FreshRegistry(use_ref) ==
    [use_reference |-> use_ref, header_root |-> NoHeader,
     char_pr_cache |-> <<>>, max_char_pr_id |-> 0, max_para_pr_id |-> 0,
     dynamic_style_map |-> <<>>, normal_style_id |-> 0,
     normal_para_pr_id |-> 0, normal_char_pr_id |-> 0,
     table_border_fill_id |-> TABLE_BORDER_FILL_ID]

InitDefaultStylesHeadingsOnly(reg) ==
    [reg EXCEPT !.normal_style_id = 0, !.normal_para_pr_id = 0,
                !.normal_char_pr_id = 0,
                !.max_char_pr_id = SetMax(HEADING_CHAR_PR_IDS)]

\* converter.py 177-183
InitDefaultStyles(reg) ==
    [reg EXCEPT !.normal_style_id = 0, !.normal_para_pr_id = 0,
                !.normal_char_pr_id = 0,
                !.max_char_pr_id = Max(SetMax(HEADING_CHAR_PR_IDS), CODE_CHAR_PR_ID)]

MaxIdOver(start, ids) == IF ids = {} THEN start ELSE Max(start, SetMax(ids))

SeqIds(seq) == {seq[i].id : i \in 1..Len(seq)}

FirstIndex(seq, P(_)) == CHOOSE i \in 1..Len(seq) :
                             P(seq[i]) /\ \A j \in 1..(i - 1) : ~P(seq[j])

\* converter.py 207-217: style 0, else the first style, else the defaults.
WithNormalStyle(reg, styles) ==
    LET isZero(st) == st.id = 0
        any(st) == TRUE
        node == IF \E i \in 1..Len(styles) : isZero(styles[i])
                THEN styles[FirstIndex(styles, isZero)]
                ELSE styles[FirstIndex(styles, any)]
    IN  IF styles = <<>> THEN reg
        ELSE [reg EXCEPT !.normal_style_id = node.id,
                         !.normal_para_pr_id = node.paraPrIDRef,
                         !.normal_char_pr_id = node.charPrIDRef]

\* converter.py 219-252: outline level -> the first paraPr carrying it ->
\* the first style referring to that paraPr.
DynamicStyleMap(paraPr, styles) ==
    LET levels == {paraPr[i].level : i \in {j \in 1..Len(paraPr) : paraPr[j].heading}}
        paraOf(level) ==
            LET has(p) == p.heading /\ p.level = level
            IN  paraPr[FirstIndex(paraPr, has)].id
        styled(level) == \E i \in 1..Len(styles) :
                             styles[i].paraPrIDRef = paraOf(level)
        styleOf(level) ==
            LET refers(st) == st.paraPrIDRef = paraOf(level)
            IN  styles[FirstIndex(styles, refers)]
    IN  [level \in {l \in levels : styled(l)} |->
            [style_id |-> styleOf(level).id,
             para_pr_id |-> paraOf(level),
             char_pr_id |-> styleOf(level).charPrIDRef]]

\* converter.py 266-293: a solid-border borderFill is appended with the next
\* id when <hh:borderFills> exists.
EnsureTableBorderFill(reg) ==
    LET h == reg.header_root
        new_id == MaxIdOver(0, h.borderFills) + 1
    IN  IF ~h.hasBorderFills THEN reg
        ELSE [reg EXCEPT !.table_border_fill_id = new_id,
                         !.header_root.borderFills = @ \cup {new_id}]

\* converter.py 260-264: the except branch.
Fallback(reg) == InitDefaultStyles([reg EXCEPT !.use_reference = FALSE])

\* converter.py 185-264.  A header that does not parse leaves header_root
\* None; an id that is not a number raises in the first loop, after
\* header_root was set.
ParseReferenceHeader(reg, t) ==
    IF t.xml # "ok" THEN Fallback(reg)
    ELSE IF ~t.numeric THEN Fallback([reg EXCEPT !.header_root = t.header])
    ELSE LET h == t.header
             r1 == [reg EXCEPT
                       !.header_root = h,
                       !.max_char_pr_id = MaxIdOver(@, DOMAIN h.charPr),
                       !.max_para_pr_id = MaxIdOver(@, SeqIds(h.paraPr)),
                       !.dynamic_style_map = DynamicStyleMap(h.paraPr, h.styles)]
         IN  EnsureTableBorderFill(WithNormalStyle(r1, h.styles))

\* converter.py 164-175: zipfile.ZipFile and z.read run outside any try, so
\* an archive that cannot be opened, or without Contents/header.xml, raises
\* out of the constructor.
LoadTemplateRaises(t) == t.given /\ t.archive # "ok"

\* converter.py 111-175: the registry a successful constructor leaves.
Constructed(t) ==
    IF t.given
    THEN ParseReferenceHeader(FreshRegistry(TRUE), t)
    ELSE InitDefaultStyles(FreshRegistry(FALSE))

\* Whether a warning is printed (converter.py 261).
ConstructionWarns(t) == t.given /\ (t.xml # "ok" \/ ~t.numeric)

\* ---- the resolvers

Formats == {"BOLD", "ITALIC", "UNDERLINE", "STRIKEOUT", "COLOR_BLUE",
            "SUPERSCRIPT", "SUBSCRIPT"}

\* converter.py 735-736, 756-757
CacheKey(base_id, active_formats) == <<base_id, active_formats>>

CacheHitNever(cache, key) == FALSE

CacheHit(cache, key) == key \in DOMAIN cache

\* converter.py 777-818: the modifications applied to the clone.
ApplyFormats(node, fmts) ==
    LET n1 == IF "BOLD" \in fmts THEN [node EXCEPT !.bold = TRUE] ELSE node
        n2 == IF "ITALIC" \in fmts THEN [n1 EXCEPT !.italic = TRUE] ELSE n1
        n3 == IF "UNDERLINE" \in fmts
              THEN [n2 EXCEPT !.underline = "BOTTOM", !.ulColor = "#000000"]
              ELSE n2
        n4 == IF "STRIKEOUT" \in fmts THEN [n3 EXCEPT !.strikeout = "SOLID"] ELSE n3
        n5 == IF "COLOR_BLUE" \in fmts
              THEN [n4 EXCEPT !.textColor = "#0000FF",
                              !.ulColor = IF n4.underline # "absent"
                                          THEN "#0000FF" ELSE @]
              ELSE n4
    IN  IF "SUPERSCRIPT" \in fmts
        THEN [n5 EXCEPT !.subscript = FALSE, !.supscript = TRUE]
        ELSE IF "SUBSCRIPT" \in fmts
        THEN [n5 EXCEPT !.supscript = FALSE, !.subscript = TRUE]
        ELSE n5

\* The result of a resolver call: the id returned and the registry after it.
Resolution(ret, reg) == [ret |-> ret, reg |-> reg]

\* converter.py 726-743
GetBuiltinCharPrId(reg, base_id, active_formats) ==
    LET key == CacheKey(base_id, active_formats)
    IN  IF active_formats = {} THEN Resolution(base_id, reg)
        ELSE IF CacheHit(reg.char_pr_cache, key)
        THEN Resolution(reg.char_pr_cache[key], reg)
        ELSE LET new_id == reg.max_char_pr_id + 1
             IN  Resolution(new_id,
                     [reg EXCEPT !.max_char_pr_id = new_id,
                                 !.char_pr_cache = @ @@ (key :> new_id)])

\* converter.py 745-825
GetFormatCharPrId(reg, base_id, active_formats) ==
    LET key == CacheKey(base_id, active_formats)
        h == reg.header_root
        base_node_id == IF base_id \in DOMAIN h.charPr THEN base_id ELSE 0
    IN  IF active_formats = {} THEN Resolution(base_id, reg)
        ELSE IF CacheHit(reg.char_pr_cache, key)
        THEN Resolution(reg.char_pr_cache[key], reg)
        ELSE IF ~h.present THEN Resolution(base_id, reg)
        ELSE IF base_node_id \notin DOMAIN h.charPr THEN Resolution(base_id, reg)
        ELSE LET new_id == reg.max_char_pr_id + 1
                 new_node == ApplyFormats(h.charPr[base_node_id], active_formats)
             IN  Resolution(new_id,
                     [reg EXCEPT !.max_char_pr_id = new_id,
                                 !.header_root.charPr = @ @@ (new_id :> new_node),
                                 !.char_pr_cache = @ @@ (key :> new_id)])

\* converter.py 1704-1717, 1773-1807: the <hh:charPr> the built-in header
\* update writes for a cache entry; _make_charpr_xml has parameters for bold,
\* italic, underline, strikeout and colour only.
MakeCharPrXml(base_id, fmts) ==
    [bold |-> "BOLD" \in fmts \/ base_id \in {7, 8},
     italic |-> "ITALIC" \in fmts,
     underline |-> IF "UNDERLINE" \in fmts THEN "BOTTOM" ELSE "NONE",
     ulColor |-> IF "COLOR_BLUE" \in fmts THEN "#0000FF" ELSE "#000000",
     strikeout |-> IF "STRIKEOUT" \in fmts THEN "SOLID" ELSE "NONE",
     supscript |-> FALSE, subscript |-> FALSE,
     textColor |-> IF "COLOR_BLUE" \in fmts THEN "#0000FF" ELSE "#000000"]

\* The character style a cached (base, formats) pair stands for in the
\* header that is written: the clone in the tree, or the generated entry.
CachedCharPr(reg, key) ==
    IF reg.use_reference
    THEN reg.header_root.charPr[reg.char_pr_cache[key]]
    ELSE MakeCharPrXml(key[1], key[2])

\* converter.py 547-551: get_current_id picks the resolver by the mode.
GetCurrentId(reg, base_id, active_formats) ==
    IF reg.use_reference
    THEN GetFormatCharPrId(reg, base_id, active_formats)
    ELSE GetBuiltinCharPrId(reg, base_id, active_formats)

\* converter.py 971, 974: HEADING_STYLE.get(level, (0, 0, 0))
FixedHeadingStyle(level) ==
    IF level \in DOMAIN HEADING_STYLE THEN HEADING_STYLE[level] ELSE <<0, 0, 0>>

HeadingStyleOfFixed(reg, level) == FixedHeadingStyle(level)

\* converter.py 957-975: the (styleIDRef, paraPrIDRef, charPrIDRef) of a
\* heading of the given level.
HeadingStyleOf(reg, level) ==
    IF reg.use_reference /\ (level - 1) \in DOMAIN reg.dynamic_style_map
    THEN LET info == reg.dynamic_style_map[level - 1]
         IN  <<info.style_id, info.para_pr_id, info.char_pr_id>>
    ELSE FixedHeadingStyle(level)

\* converter.py 914-921: the ids of a normal paragraph.
NormalStyleOf(reg) ==
    IF reg.use_reference /\ reg.header_root.present
    THEN <<reg.normal_style_id, reg.normal_para_pr_id, reg.normal_char_pr_id>>
    ELSE <<0, 0, 0>>

\* The base ids _process_inlines is called with: a paragraph's and each
\* heading level's character style.
BaseIdsOf(reg) ==
    {NormalStyleOf(reg)[3]} \cup {HeadingStyleOf(reg, level)[3] : level \in 1..6}

\* The registry as one record, and its assignment to the variables.
Registry ==
    [use_reference |-> use_reference, header_root |-> header_root,
     char_pr_cache |-> char_pr_cache, max_char_pr_id |-> max_char_pr_id,
     max_para_pr_id |-> max_para_pr_id, dynamic_style_map |-> dynamic_style_map,
     normal_style_id |-> normal_style_id, normal_para_pr_id |-> normal_para_pr_id,
     normal_char_pr_id |-> normal_char_pr_id,
     table_border_fill_id |-> table_border_fill_id]

SetRegistry(reg) ==
    /\ use_reference' = reg.use_reference
    /\ header_root' = reg.header_root
    /\ char_pr_cache' = reg.char_pr_cache
    /\ max_char_pr_id' = reg.max_char_pr_id
    /\ max_para_pr_id' = reg.max_para_pr_id
    /\ dynamic_style_map' = reg.dynamic_style_map
    /\ normal_style_id' = reg.normal_style_id
    /\ normal_para_pr_id' = reg.normal_para_pr_id
    /\ normal_char_pr_id' = reg.normal_char_pr_id
    /\ table_border_fill_id' = reg.table_border_fill_id

RegistryIs(reg) ==
    /\ use_reference = reg.use_reference
    /\ header_root = reg.header_root
    /\ char_pr_cache = reg.char_pr_cache
    /\ max_char_pr_id = reg.max_char_pr_id
    /\ max_para_pr_id = reg.max_para_pr_id
    /\ dynamic_style_map = reg.dynamic_style_map
    /\ normal_style_id = reg.normal_style_id
    /\ normal_para_pr_id = reg.normal_para_pr_id
    /\ normal_char_pr_id = reg.normal_char_pr_id
    /\ table_border_fill_id = reg.table_border_fill_id

NoCall == [base |-> 0, mods |-> {}, ret |-> 0, repeat |-> FALSE, made |-> FALSE]

\* Bounds and input sets of the registry's specification: the format sets the
\* inline walk builds (Strong, Emph, their nesting, Underline, Link,
\* Strikeout, Superscript, Subscript and the two nested).
MaxKeys == 2
ModSets == { {}, {"BOLD"}, {"ITALIC"}, {"BOLD", "ITALIC"}, {"UNDERLINE"},
             {"UNDERLINE", "COLOR_BLUE"}, {"STRIKEOUT"}, {"SUPERSCRIPT"},
             {"SUBSCRIPT"}, {"SUPERSCRIPT", "SUBSCRIPT"} }

\* The state after a successful construction, for every reference document
\* (and for none).
StyInit ==
    /\ cv_pc = "ready"
    /\ template \in {t \in Templates : ~LoadTemplateRaises(t)}
    /\ RegistryIs(Constructed(template))
    /\ warnings = IF ConstructionWarns(template) THEN 1 ELSE 0
    /\ last_call = NoCall
    /\ resolved = <<>>
    /\ doc = [title |-> FALSE, subtitle |-> FALSE, byline |-> FALSE,
              toc |-> FALSE, blocks |-> <<>>]
    /\ cv_i = 0
    /\ refs = {}
    /\ final = [charPr |-> {}, paraPr |-> {}, style |-> {}, borderFill |-> {}]
    /\ body_parts = <<>>

\* One call of the mode's resolver, as get_current_id makes it.
Resolve(base_id, active_formats) ==
    LET key == <<base_id, active_formats>>
        res == GetCurrentId(Registry, base_id, active_formats)
    IN  /\ cv_pc = "ready"
        /\ key \in DOMAIN resolved \/ Cardinality(DOMAIN resolved) < MaxKeys
        /\ SetRegistry(res.reg)
        /\ last_call' = [base |-> base_id, mods |-> active_formats,
                         ret |-> res.ret, repeat |-> key \in DOMAIN resolved,
                         made |-> TRUE]
        /\ resolved' = IF key \in DOMAIN resolved THEN resolved
                       ELSE resolved @@ (key :> res.ret)
        /\ UNCHANGED <<cv_pc, template, warnings, doc, cv_i, refs, final,
                       body_parts>>
        /\ UNCHANGED notCv

StyResolve == \E b \in BaseIdsOf(Registry), m \in ModSets : Resolve(b, m)

StyNext == StyResolve

(***************************************************************************)
(* 4. Conversion (converter.py: constructor, convert, header update)       *)
(***************************************************************************)
\* templates/blank.hwpx is not part of the sources.  Its header is taken to
\* hold what the code that edits it presupposes: seven character styles
\* (the "7 +" of the item count), the styles and paragraph styles
\* HEADING_STYLE names, two border fills under a borderFillList.
BlankHeader ==
    [Header([i \in 0..6 |-> PlainCharPr],
            [i \in 1..8 |-> PlainParaPr(i - 1)],
            [i \in 1..8 |-> Style(i - 1, i - 1, 0)],
            TRUE, {1, 2})
     EXCEPT !.fillListMarker = TRUE]

\* converter.py 164-169: header_xml_raw is the header of template_path, the
\* reference document when one is given.
HeaderXmlRaw(t) == IF t.given THEN t.header ELSE BlankHeader

\* A document: which metadata it has (title, subtitle, author or date), the
\* toc option, and the blocks.
DocMods == { {}, {"BOLD"} }
DocLevels == {1, 3, 7}
MaxBlocks == 2

Block(t, level, mods) == [t |-> t, level |-> level, mods |-> mods]

Blocks ==
    {Block("Para", 0, m) : m \in DocMods}
      \cup {Block("Header", l, m) : l \in DocLevels, m \in DocMods}
      \cup {Block("ParaCode", 0, {}), Block("CodeBlock", 0, {}),
            Block("Table", 0, {}), Block("EmptyTable", 0, {}),
            Block("RawBlock", 0, {})}

MetaShapes ==
    { [title |-> FALSE, subtitle |-> FALSE, byline |-> FALSE],
      [title |-> TRUE, subtitle |-> FALSE, byline |-> FALSE],
      [title |-> FALSE, subtitle |-> FALSE, byline |-> TRUE],
      [title |-> TRUE, subtitle |-> TRUE, byline |-> TRUE] }

Docs ==
    {[title |-> m.title, subtitle |-> m.subtitle, byline |-> m.byline,
      toc |-> toc, blocks |-> blocks] :
         m \in MetaShapes, toc \in BOOLEAN, blocks \in SeqsUpTo(Blocks, MaxBlocks)}

EmptyDoc ==
    [title |-> FALSE, subtitle |-> FALSE, byline |-> FALSE, toc |-> FALSE,
     blocks |-> <<>>]

\* The header tables of the written document.
Tables(charPr, paraPr, style, borderFill) ==
    [charPr |-> charPr, paraPr |-> paraPr, style |-> style,
     borderFill |-> borderFill]

NoTables == Tables({}, {}, {}, {})

\* References an emitted <hp:p> with one run makes (converter.py 498-516).
ParagraphRefs(style_id, para_pr_id, char_pr_id) ==
    {<<"style", style_id>>, <<"paraPr", para_pr_id>>, <<"charPr", char_pr_id>>}

\* What a handler does: the references it emits and the registry it leaves.
Emission(out, reg) == [refs |-> out, reg |-> reg]

\* converter.py 400-430: the references of the title and subtitle paragraphs
\* (both resolve the same bold clone in template mode), of the author/date
\* line and of the blank separator.
BuildTitleBlock(reg, d) ==
    LET templated == reg.use_reference /\ reg.header_root.present
        res == IF templated /\ (d.title \/ d.subtitle)
               THEN GetFormatCharPrId(reg, reg.normal_char_pr_id, {"BOLD"})
               ELSE Resolution(0, reg)
        heading(char_pr_id) ==
            IF templated
            THEN ParagraphRefs(reg.normal_style_id, reg.normal_para_pr_id, res.ret)
            ELSE ParagraphRefs(0, 0, char_pr_id)
    IN  Emission((IF d.title THEN heading(7) ELSE {})
                     \cup (IF d.subtitle THEN heading(8) ELSE {})
                     \cup (IF d.title \/ d.subtitle \/ d.byline
                           THEN ParagraphRefs(0, 0, 0) ELSE {}),
                 res.reg)

\* converter.py 400-430: the paragraphs of the title block; a blank
\* separator follows when there is any.
TitleBlockParas(d) ==
    LET parts == (IF d.title THEN <<"text">> ELSE <<>>)
                     \o (IF d.subtitle THEN <<"text">> ELSE <<>>)
                     \o (IF d.byline THEN <<"text">> ELSE <<>>)
    IN  IF parts = <<>> THEN <<>> ELSE parts \o <<"empty">>

\* converter.py 433-455: the levels of the document's headings.
CollectHeadings(blocks) ==
    {blocks[i].level : i \in {j \in 1..Len(blocks) : blocks[j].t = "Header"}}

\* converter.py 457-495: the title in charPr 8, the top-level entries bold,
\* the others and the separators with the default ids.
BuildTocBlock(reg, blocks) ==
    IF CollectHeadings(blocks) = {} THEN Emission({}, reg)
    ELSE LET res == IF reg.use_reference /\ reg.header_root.present
                    THEN GetFormatCharPrId(reg, reg.normal_char_pr_id, {"BOLD"})
                    ELSE GetBuiltinCharPrId(reg, 0, {"BOLD"})
         IN  Emission(ParagraphRefs(0, 0, 8) \cup ParagraphRefs(0, 0, 0)
                          \cup ParagraphRefs(0, 0, res.ret),
                      res.reg)

\* converter.py 456-495: the title, a blank, one entry per heading, and the
\* blank / rule / blank separator; nothing without headings.
TocBlockParas(blocks) ==
    LET n == Cardinality({i \in 1..Len(blocks) : blocks[i].t = "Header"})
    IN  IF n = 0 THEN <<>>
        ELSE <<"text", "empty">> \o [i \in 1..n |-> "text"]
                 \o <<"empty", "text", "empty">>

\* The strings a block of the document adds to the body: one paragraph per
\* Para, Header and one-line CodeBlock, the wrapper paragraph of a Table;
\* nothing for a RawBlock (converter.py 883-885); for a table without rows or
\* columns the empty string _handle_table returns (1237-1247), which
\* _process_blocks appends like any table (862-863).
BlockParas(block) ==
    CASE block.t = "Table" -> <<"table">>
      [] block.t = "EmptyTable" -> <<"blank_string">>
      [] block.t = "RawBlock" -> <<>>
      [] OTHER -> <<"text">>

\* converter.py 384-385
BodyUnchanged(parts) == parts

BodyOrEmptyParagraph(parts) == IF parts = <<>> THEN <<"empty">> ELSE parts

\* converter.py 913-936: a paragraph of one Str under the given formats.
HandlePara(reg, mods) ==
    LET ids == NormalStyleOf(reg)
        res == GetCurrentId(reg, ids[3], mods)
    IN  Emission(ParagraphRefs(ids[1], ids[2], res.ret), res.reg)

\* converter.py 630-637: a paragraph whose only inline is a Code span.
HandleParaCode(reg) ==
    LET ids == NormalStyleOf(reg)
    IN  Emission(ParagraphRefs(ids[1], ids[2], CODE_CHAR_PR_ID), reg)

\* converter.py 957-989
HandleHeader(reg, level, mods) ==
    LET ids == HeadingStyleOf(reg, level)
        res == GetCurrentId(reg, ids[3], mods)
    IN  Emission(ParagraphRefs(ids[1], ids[2], res.ret), res.reg)

\* converter.py 991-1004
HandleCodeBlock(reg) == Emission(ParagraphRefs(0, 0, CODE_CHAR_PR_ID), reg)

\* converter.py 1276-1284, 1338, 1378-1392: the wrapper paragraph, the
\* border fill of the table and its cells, and a cell holding one plain Para.
HandleTableRefs(reg) ==
    LET base_cid == IF reg.use_reference THEN reg.normal_char_pr_id ELSE 0
    IN  Emission(ParagraphRefs(0, 0, 0)
                     \cup {<<"borderFill", reg.table_border_fill_id>>}
                     \cup ParagraphRefs(0, 0, base_cid),
                 reg)

\* converter.py 1664-1680: the tree as the resolvers left it.
UpdateReferenceHeader(reg) ==
    LET h == reg.header_root
    IN  Tables(DOMAIN h.charPr, SeqIds(h.paraPr), SeqIds(h.styles), h.borderFills)

\* converter.py 1682-1746: the heading, code and cache entries are spliced in
\* before </hh:charProperties>, the table border fill before
\* </hh:borderFillList>, where the raw header text has these markers.
UpdateBuiltinHeader(reg, raw) ==
    LET cached == {reg.char_pr_cache[k] : k \in DOMAIN reg.char_pr_cache}
    IN  Tables(IF raw.present
               THEN DOMAIN raw.charPr \cup HEADING_CHAR_PR_IDS
                        \cup {CODE_CHAR_PR_ID} \cup cached
               ELSE {},
               SeqIds(raw.paraPr), SeqIds(raw.styles),
               IF raw.fillListMarker
               THEN raw.borderFills \cup {TABLE_BORDER_FILL_ID}
               ELSE raw.borderFills)

\* The number of <hh:charPr> the built-in update takes the raw header to
\* hold (converter.py 1723).
BUILTIN_CHAR_PR_COUNT == 7

ItemCounts(charPr, paraPr, borderFill) ==
    [charPr |-> charPr, paraPr |-> paraPr, borderFill |-> borderFill]

\* The entries each table of the written header holds.  The raw header's
\* own tables come with the documents handed in.
EntryCounts(reg, raw) ==
    IF reg.use_reference /\ reg.header_root.present
    THEN LET h == reg.header_root
         IN  ItemCounts(Cardinality(DOMAIN h.charPr), Len(h.paraPr),
                        Cardinality(h.borderFills))
    ELSE ItemCounts(
             IF raw.present
             THEN Cardinality(DOMAIN raw.charPr)
                      + Cardinality(HEADING_CHAR_PR_IDS) + 1
                      + Cardinality(DOMAIN reg.char_pr_cache)
             ELSE 0,
             Len(raw.paraPr),
             Cardinality(raw.borderFills)
                 + (IF raw.fillListMarker THEN 1 ELSE 0))

\* converter.py 1668-1678 and 1722-1734: the itemCnt attributes written.  The
\* reference update counts the children; the built-in update computes the
\* character styles from BUILTIN_CHAR_PR_COUNT and writes 3 for the border
\* fills where the text has <hh:borderFillList itemCnt=.
DeclaredCounts(reg, raw) ==
    IF reg.use_reference /\ reg.header_root.present
    THEN EntryCounts(reg, raw)
    ELSE ItemCounts(
             IF raw.present
             THEN BUILTIN_CHAR_PR_COUNT + Cardinality(HEADING_CHAR_PR_IDS) + 1
                      + Cardinality(DOMAIN reg.char_pr_cache)
             ELSE 0,
             Len(raw.paraPr),
             IF raw.fillListMarker THEN 3 ELSE Cardinality(raw.borderFills))

\* converter.py 1655-1662
UpdateHeaderXml(reg, raw) ==
    IF reg.use_reference /\ reg.header_root.present
    THEN UpdateReferenceHeader(reg)
    ELSE UpdateBuiltinHeader(reg, raw)

CvInit ==
    /\ cv_pc = "new"
    /\ template \in Templates
    /\ doc \in Docs
    /\ RegistryIs(FreshRegistry(template.given))
    /\ warnings = 0
    /\ last_call = NoCall
    /\ resolved = <<>>
    /\ cv_i = 0
    /\ refs = {}
    /\ final = NoTables
    /\ body_parts = <<>>

\* PandocHwpxConverter.__init__: the template is loaded and, when a reference
\* document was given, its header parsed.
CvConstruct ==
    /\ cv_pc = "new"
    /\ IF LoadTemplateRaises(template)
       THEN /\ cv_pc' = "aborted"
            /\ UNCHANGED <<regVars, warnings>>
       ELSE /\ cv_pc' = "title"
            /\ SetRegistry(Constructed(template))
            /\ warnings' = IF ConstructionWarns(template) THEN 1 ELSE 0
    /\ UNCHANGED <<template, doc, last_call, resolved, cv_i, refs, final,
                   body_parts>>
    /\ UNCHANGED notCv

Emit(e, paras, next_pc, next_i) ==
    /\ SetRegistry(e.reg)
    /\ refs' = refs \cup e.refs
    /\ body_parts' = body_parts \o paras
    /\ cv_pc' = next_pc
    /\ cv_i' = next_i
    /\ UNCHANGED <<template, doc, warnings, last_call, resolved, final>>
    /\ UNCHANGED notCv

CvTitleBlock ==
    /\ cv_pc = "title"
    /\ Emit(BuildTitleBlock(Registry, doc), TitleBlockParas(doc), "toc", cv_i)

CvTocBlock ==
    /\ cv_pc = "toc"
    /\ Emit(IF doc.toc THEN BuildTocBlock(Registry, doc.blocks)
            ELSE Emission({}, Registry),
            IF doc.toc THEN TocBlockParas(doc.blocks) ELSE <<>>,
            "blocks", 1)

AtBlock(t) ==
    /\ cv_pc = "blocks"
    /\ cv_i \in 1..Len(doc.blocks)
    /\ doc.blocks[cv_i].t = t

CvPara ==
    /\ AtBlock("Para")
    /\ Emit(HandlePara(Registry, doc.blocks[cv_i].mods),
            BlockParas(doc.blocks[cv_i]), "blocks", cv_i + 1)

CvParaCode ==
    /\ AtBlock("ParaCode")
    /\ Emit(HandleParaCode(Registry), BlockParas(doc.blocks[cv_i]), "blocks", cv_i + 1)

CvHeader ==
    /\ AtBlock("Header")
    /\ Emit(HandleHeader(Registry, doc.blocks[cv_i].level, doc.blocks[cv_i].mods),
            BlockParas(doc.blocks[cv_i]), "blocks", cv_i + 1)

CvCodeBlock ==
    /\ AtBlock("CodeBlock")
    /\ Emit(HandleCodeBlock(Registry), BlockParas(doc.blocks[cv_i]), "blocks", cv_i + 1)

CvTable ==
    /\ AtBlock("Table")
    /\ Emit(HandleTableRefs(Registry), BlockParas(doc.blocks[cv_i]), "blocks", cv_i + 1)

\* converter.py 862-863, 1237-1247: a table without rows or columns.
CvEmptyTable ==
    /\ AtBlock("EmptyTable")
    /\ Emit(Emission({}, Registry), BlockParas(doc.blocks[cv_i]), "blocks", cv_i + 1)

\* converter.py 883-885
CvRawBlock ==
    /\ AtBlock("RawBlock")
    /\ Emit(Emission({}, Registry), BlockParas(doc.blocks[cv_i]), "blocks", cv_i + 1)

\* converter.py 384-397: an empty body gets one empty paragraph; the header
\* is updated and the package written.
CvFinalize ==
    /\ cv_pc = "blocks"
    /\ cv_i = Len(doc.blocks) + 1
    /\ cv_pc' = "done"
    /\ refs' = IF body_parts = <<>> THEN ParagraphRefs(0, 0, 0) ELSE refs
    /\ body_parts' = BodyOrEmptyParagraph(body_parts)
    /\ final' = UpdateHeaderXml(Registry, HeaderXmlRaw(template))
                    @@ [itemCnt |-> DeclaredCounts(Registry, HeaderXmlRaw(template)),
                        entries |-> EntryCounts(Registry, HeaderXmlRaw(template))]
    /\ UNCHANGED <<regVars, template, doc, warnings, last_call, resolved, cv_i>>
    /\ UNCHANGED notCv

CvNext ==
    \/ CvConstruct
    \/ CvTitleBlock
    \/ CvTocBlock
    \/ CvPara
    \/ CvParaCode
    \/ CvHeader
    \/ CvCodeBlock
    \/ CvTable
    \/ CvEmptyTable
    \/ CvRawBlock
    \/ CvFinalize

(***************************************************************************)
(* 5. Id generators and instance state (converter.py 84-93, 121-139)       *)
(***************************************************************************)
\* Python's integers are unbounded and the seed 3121190098 exceeds the
\* checker's integers: a paragraph id is kept as <<millions, rest>>, in base
\* 10^6, with carry.
WIDE_BASE == 1000000
PARA_ID_SEED == <<3121, 190098>>

WideSucc(w) == IF w[2] + 1 = WIDE_BASE THEN <<w[1] + 1, 0>> ELSE <<w[1], w[2] + 1>>

WideLess(a, b) == a[1] < b[1] \/ (a[1] = b[1] /\ a[2] < b[2])

UNIQUE_ID_MODULUS == 100000000
UNIQUE_ID_RAND_MAX == 10000

\* Two converter instances of one process; how many generator calls they
\* make together; how far the millisecond clock advances.
Instances == {1, 2}
MaxIdCalls == 4
MaxTicks == 1
\* time.time() * 1000 is only read modulo UNIQUE_ID_MODULUS; the clock is
\* kept modulo 20 * UNIQUE_ID_MODULUS.  Two moments: an ordinary one, and
\* one two milliseconds before the residue wraps.
ClockStart == 1234567890
ClockBeforeWrap == 1299999998
RandInts == {0, UNIQUE_ID_RAND_MAX}

\* converter.py 84-90: _next_para_id increments the module-level counter
\* and returns it.
NextParaIdStuck(counter) == counter

NextParaId(counter) == WideSucc(counter)

\* converter.py 92-93: _unique_id.
UniqueId(now_ms, rnd) == (now_ms % UNIQUE_ID_MODULUS) + rnd

\* converter.py 121-139: the per-instance fields a constructor sets, with the
\* ids the instance has been handed so far.
FreshInstance ==
    [created |-> TRUE, para_ids |-> <<>>, object_ids |-> <<>>, images |-> <<>>]

NoInstance ==
    [created |-> FALSE, para_ids |-> <<>>, object_ids |-> <<>>, images |-> <<>>]

\* The generator calls made so far.
IdCalls ==
    Len(para_issued) + SumSeq([i \in 1..Cardinality(Instances) |->
                                  Len(inst[i].object_ids)])

IdInit ==
    /\ id_pc = "run"
    /\ para_id_counter = PARA_ID_SEED
    /\ clock \in {ClockStart, ClockBeforeWrap}
    /\ ticks = 0
    /\ inst = [i \in Instances |-> NoInstance]
    /\ para_issued = <<>>

\* PandocHwpxConverter(...): a new instance; the module counter is not reset.
IdConstruct(i) ==
    /\ id_pc = "run"
    /\ ~inst[i].created
    /\ inst' = [inst EXCEPT ![i] = FreshInstance]
    /\ UNCHANGED <<id_pc, para_id_counter, clock, ticks, para_issued>>
    /\ UNCHANGED notId

\* A handler of instance i emits a paragraph (_next_para_id).
IdNextParaId(i) ==
    /\ id_pc = "run"
    /\ inst[i].created
    /\ IdCalls < MaxIdCalls
    /\ para_id_counter' = NextParaId(para_id_counter)
    /\ inst' = [inst EXCEPT ![i].para_ids = Append(@, para_id_counter')]
    /\ para_issued' = Append(para_issued, para_id_counter')
    /\ UNCHANGED <<id_pc, clock, ticks>>
    /\ UNCHANGED notId

\* A handler of instance i creates a table, cell list, field or footnote
\* (_unique_id), with whatever random.randint returns.
IdUniqueId(i) ==
    /\ id_pc = "run"
    /\ inst[i].created
    /\ IdCalls < MaxIdCalls
    /\ \E rnd \in RandInts :
           inst' = [inst EXCEPT ![i].object_ids = Append(@, UniqueId(clock, rnd))]
    /\ UNCHANGED <<id_pc, para_id_counter, clock, ticks, para_issued>>
    /\ UNCHANGED notId

\* _handle_image of instance i appends to self.images and draws the
\* picture's id (converter.py 1522-1540).
IdImage(i) ==
    /\ id_pc = "run"
    /\ inst[i].created
    /\ IdCalls < MaxIdCalls
    /\ \E rnd \in RandInts :
           inst' = [inst EXCEPT ![i].images = Append(@, Len(@) + 1),
                                ![i].object_ids = Append(@, UniqueId(clock, rnd))]
    /\ UNCHANGED <<id_pc, para_id_counter, clock, ticks, para_issued>>
    /\ UNCHANGED notId

\* The wall clock advances by a millisecond.
IdTick ==
    /\ id_pc = "run"
    /\ ticks < MaxTicks
    /\ clock' = clock + 1
    /\ ticks' = ticks + 1
    /\ UNCHANGED <<id_pc, para_id_counter, inst, para_issued>>
    /\ UNCHANGED notId

IdConstructAny == \E i \in Instances : IdConstruct(i)
IdNextParaIdAny == \E i \in Instances : IdNextParaId(i)
IdUniqueIdAny == \E i \in Instances : IdUniqueId(i)
IdImageAny == \E i \in Instances : IdImage(i)

IdNext ==
    \/ IdConstructAny
    \/ IdNextParaIdAny
    \/ IdUniqueIdAny
    \/ IdImageAny
    \/ IdTick

(***************************************************************************)
(* 6. Images and the package writer (converter.py: _handle_image,          *)
(*    _write_hwpx)                                                         *)
(***************************************************************************)
DEFAULT_IMAGE_SIZE == 8504

\* An image of the document: whether its file is found when the tree is
\* walked, what a later read of it does when the archive is written, and the
\* size its attributes request (<<0, 0>>: none).
MaxImages == 2
NoSize == <<0, 0>>
RequestedSizes == {NoSize, <<10000, 5000>>, <<85040, 1000>>}
PixelSize == <<100, 50>>

ImageInput(at_walk, at_write, size) ==
    [at_walk |-> at_walk, at_write |-> at_write, size |-> size]

ImageInputs ==
    {ImageInput("missing", "gone", sz) : sz \in RequestedSizes}
      \cup {ImageInput("ok", w, NoSize) : w \in {"ok", "gone", "unreadable"}}
      \cup {ImageInput("undecodable", "ok", NoSize)}

\* The entries of the template archive, in archive order.
Entry(name, img, data) == [name |-> name, img |-> img, data |-> data]

SourceEntries ==
    << Entry("mimetype", 0, "source"),
       Entry("version.xml", 0, "source"),
       Entry("Contents/header.xml", 0, "source"),
       Entry("Contents/section0.xml", 0, "source"),
       Entry("Contents/content.hpf", 0, "source"),
       Entry("settings.xml", 0, "source") >>

File(state, entries) == [state |-> state, entries |-> entries]

PackageInputs ==
    [images : SeqsUpTo(ImageInputs, MaxImages), dst : {"absent", "prior"}]

\* converter.py 1485-1512: Pillow's pixel size is used when the file is found
\* and opens; otherwise the requested size, otherwise the default.
\* LUNIT_PER_PX is 75.0001..., so int(px * LUNIT_PER_PX) is px * 75 here.
ImageSizeNoDefault(img) ==
    IF img.at_walk = "ok" /\ img.size = NoSize
    THEN <<PixelSize[1] * 75, PixelSize[2] * 75>>
    ELSE img.size

ImageSize(img) ==
    IF img.at_walk = "ok"
    THEN IF img.size # NoSize THEN img.size
         ELSE <<PixelSize[1] * 75, PixelSize[2] * 75>>
    ELSE IF img.size # NoSize THEN img.size
         ELSE <<DEFAULT_IMAGE_SIZE, DEFAULT_IMAGE_SIZE>>

\* converter.py 1514-1519: the width is capped at the page text width.
CapWidth(sz) ==
    IF sz[1] > PAGE_TEXT_WIDTH
    THEN <<PAGE_TEXT_WIDTH, (sz[2] * PAGE_TEXT_WIDTH) \div sz[1]>>
    ELSE sz

\* converter.py 1586-1600: _resolve_image_path returns a path only for a
\* file that exists.
Resolved(img) == img.at_walk # "missing"

\* converter.py 1865-1884: the images the manifest of content.hpf gets an
\* <opf:item href="BinData/..."> for: every element of self.images.
UpdateContentHpf(imgs) == {imgs[k].id : k \in 1..Len(imgs)}

\* converter.py 1916: the test that guards the copy of one image.
Embeds(image, input) == image.resolved /\ input.at_write # "gone"

PkInit ==
    /\ pk_pc = "walk"
    /\ pk_in \in PackageInputs
    /\ pk_i = 1
    /\ pics = <<>>
    /\ images = <<>>
    /\ src_file = File("archive", SourceEntries)
    /\ tmp_file = File("absent", <<>>)
    /\ dst_file = File(pk_in.dst, <<>>)
    /\ pk_warned = {}
    /\ pk_raised = "no"

\* _handle_image for the next image of the tree.
PkHandleImage ==
    /\ pk_pc = "walk"
    /\ pk_i \in 1..Len(pk_in.images)
    /\ pics' = Append(pics, [binaryItemIDRef |-> pk_i,
                             size |-> CapWidth(ImageSize(pk_in.images[pk_i]))])
    /\ images' = Append(images, [id |-> pk_i,
                                 resolved |-> Resolved(pk_in.images[pk_i])])
    /\ pk_i' = pk_i + 1
    /\ UNCHANGED <<pk_pc, pk_in, src_file, tmp_file, dst_file, pk_warned, pk_raised>>
    /\ UNCHANGED notPk

\* converter.py 1892-1893: the temporary file is created, outside the try.
PkCreateTmp ==
    /\ pk_pc = "walk"
    /\ pk_i = Len(pk_in.images) + 1
    /\ \E ok \in BOOLEAN :
           IF ok
           THEN /\ tmp_file' = File("empty", <<>>)
                /\ pk_pc' = "entries"
                /\ pk_i' = 1
                /\ UNCHANGED pk_raised
           ELSE /\ pk_pc' = "failed"
                /\ pk_raised' = "create"
                /\ UNCHANGED <<tmp_file, pk_i>>
    /\ UNCHANGED <<pk_in, pics, images, src_file, dst_file, pk_warned>>
    /\ UNCHANGED notPk

\* converter.py 1926-1929: the except branch deletes the temporary file if it
\* exists and re-raises.
Cleanup(cause) ==
    /\ tmp_file' = File("absent", <<>>)
    /\ pk_pc' = "failed"
    /\ pk_raised' = cause

\* converter.py 1898-1911: the three generated parts replace the template's,
\* every other entry is copied.
OutputEntryRegenerated(item) == [item EXCEPT !.data = "section_xml"]

OutputEntry(item) ==
    IF item.name = "Contents/section0.xml" THEN [item EXCEPT !.data = "section_xml"]
    ELSE IF item.name = "Contents/header.xml" THEN [item EXCEPT !.data = "header_xml"]
    ELSE IF item.name = "Contents/content.hpf" THEN [item EXCEPT !.data = "hpf_xml"]
    ELSE item

\* One turn of the loop over src_zip.infolist(); a write can fail.
PkCopyEntry ==
    /\ pk_pc = "entries"
    /\ pk_i \in 1..Len(src_file.entries)
    /\ \E ok \in BOOLEAN :
           IF ok
           THEN /\ tmp_file' = File("writing",
                                    Append(tmp_file.entries,
                                           OutputEntry(src_file.entries[pk_i])))
                /\ pk_i' = pk_i + 1
                /\ UNCHANGED <<pk_pc, pk_raised>>
           ELSE /\ Cleanup("write")
                /\ UNCHANGED pk_i
    /\ UNCHANGED <<pk_in, pics, images, src_file, dst_file, pk_warned>>
    /\ UNCHANGED notPk

PkEntriesDone ==
    /\ pk_pc = "entries"
    /\ pk_i = Len(src_file.entries) + 1
    /\ pk_pc' = "images"
    /\ pk_i' = 1
    /\ UNCHANGED <<pk_in, pics, images, src_file, tmp_file, dst_file, pk_warned,
                   pk_raised>>
    /\ UNCHANGED notPk

\* converter.py 1914-1921: one turn of the loop over self.images.  An image
\* that passes the test is read and written; a read that fails raises.
PkEmbedImage ==
    /\ pk_pc = "images"
    /\ pk_i \in 1..Len(images)
    /\ IF Embeds(images[pk_i], pk_in.images[pk_i])
       THEN IF pk_in.images[pk_i].at_write = "unreadable"
            THEN /\ Cleanup("image")
                 /\ UNCHANGED <<pk_i, pk_warned>>
            ELSE /\ tmp_file' = File("writing",
                                     Append(tmp_file.entries,
                                            Entry("BinData", images[pk_i].id, "image")))
                 /\ pk_i' = pk_i + 1
                 /\ UNCHANGED <<pk_pc, pk_raised, pk_warned>>
       ELSE /\ pk_warned' = pk_warned \cup {images[pk_i].id}
            /\ pk_i' = pk_i + 1
            /\ UNCHANGED <<pk_pc, pk_raised, tmp_file>>
    /\ UNCHANGED <<pk_in, pics, images, src_file, dst_file>>
    /\ UNCHANGED notPk

\* The archives are closed: the central directory is written; this can fail.
PkClose ==
    /\ pk_pc = "images"
    /\ pk_i = Len(images) + 1
    /\ \E ok \in BOOLEAN :
           IF ok
           THEN /\ tmp_file' = File("complete", tmp_file.entries)
                /\ pk_pc' = "move"
                /\ UNCHANGED pk_raised
           ELSE Cleanup("write")
    /\ UNCHANGED <<pk_in, pk_i, pics, images, src_file, dst_file, pk_warned>>
    /\ UNCHANGED notPk

\* converter.py 1923: shutil.move.  A rename either happens or not; across
\* file systems it is a copy followed by a delete, and a copy that fails has
\* already truncated or partly written the destination.
PkMove ==
    /\ pk_pc = "move"
    /\ \E outcome \in {"moved", "refused", "copy_failed"} :
           CASE outcome = "moved" ->
                    /\ dst_file' = File("new", tmp_file.entries)
                    /\ tmp_file' = File("absent", <<>>)
                    /\ pk_pc' = "done"
                    /\ UNCHANGED pk_raised
             [] outcome = "refused" ->
                    /\ Cleanup("move")
                    /\ UNCHANGED dst_file
             [] outcome = "copy_failed" ->
                    /\ Cleanup("move")
                    /\ dst_file' = File("partial", <<>>)
    /\ UNCHANGED <<pk_in, pk_i, pics, images, src_file, pk_warned>>
    /\ UNCHANGED notPk

PkNext ==
    \/ PkHandleImage
    \/ PkCreateTmp
    \/ PkCopyEntry
    \/ PkEntriesDone
    \/ PkEmbedImage
    \/ PkClose
    \/ PkMove

(***************************************************************************)
(* 7. Command line entry point (__main__.py: main)                         *)
(***************************************************************************)
\* What standard input holds.  A JSON text is either not an object (an
\* array, a number, null) or an object whose "blocks" are a list of: a
\* well-formed block ("ok"), a value that is not an object ("non_object"),
\* an object of an unknown type ("unknown_type"), or a block whose content
\* has the wrong shape, on which the handler raises ("bad_content").
MaxTreeBlocks == 2
TreeBlocks == {"ok", "non_object", "unknown_type", "bad_content"}

CliInput(stdin, top, blocks) == [stdin |-> stdin, top |-> top, blocks |-> blocks]

CliInputs ==
    {CliInput(text, "none", <<>>) : text \in {"empty", "blank", "not_json"}}
      \cup {CliInput("json", "not_object", <<>>)}
      \cup {CliInput("json", "object", b) : b \in SeqsUpTo(TreeBlocks, MaxTreeBlocks)}

\* converter.py 829-888: _process_blocks skips what is not a dict and what
\* has no branch; a handler indexing its content raises on a wrong shape.
BlockRaises(block) == block = "bad_content"

CliInit ==
    /\ cli_pc = "read"
    /\ cli_in \in CliInputs
    /\ cli_i = 1
    /\ cli_exit = 0
    /\ cli_walked = FALSE
    /\ cli_archive = "none"
    /\ cli_errors = <<>>

CliExit(code, message) ==
    /\ cli_pc' = "exit"
    /\ cli_exit' = code
    /\ cli_errors' = Append(cli_errors, message)

\* __main__.py 37-41: nothing but white space on stdin.
CliRead ==
    /\ cli_pc = "read"
    /\ IF cli_in.stdin \in {"empty", "blank"}
       THEN CliExit(1, "Error: No JSON AST received on stdin")
       ELSE /\ cli_pc' = "parse"
            /\ UNCHANGED <<cli_exit, cli_errors>>
    /\ UNCHANGED <<cli_in, cli_i, cli_walked, cli_archive>>
    /\ UNCHANGED notCli

\* __main__.py 43-47: json.loads.
CliParse ==
    /\ cli_pc = "parse"
    /\ IF cli_in.stdin = "not_json"
       THEN CliExit(1, "Error: Invalid JSON AST")
       ELSE /\ cli_pc' = "construct"
            /\ UNCHANGED <<cli_exit, cli_errors>>
    /\ UNCHANGED <<cli_in, cli_i, cli_walked, cli_archive>>
    /\ UNCHANGED notCli

\* __main__.py 55-60 and converter.py 162, 300-302: the constructor reads the
\* metadata with self.ast.get, which raises on a value that is not an
\* object; the uncaught exception ends the process with status 1.
CliConstruct ==
    /\ cli_pc = "construct"
    /\ IF cli_in.top = "not_object"
       THEN CliExit(1, "Traceback: AttributeError")
       ELSE /\ cli_pc' = "walk"
            /\ UNCHANGED <<cli_exit, cli_errors>>
    /\ UNCHANGED <<cli_in, cli_i, cli_walked, cli_archive>>
    /\ UNCHANGED notCli

\* converter.py 834-888: one turn of the loop of _process_blocks.
CliWalkBlock ==
    /\ cli_pc = "walk"
    /\ cli_i \in 1..Len(cli_in.blocks)
    /\ IF BlockRaises(cli_in.blocks[cli_i])
       THEN /\ CliExit(1, "Traceback: handler")
            /\ UNCHANGED cli_i
       ELSE /\ cli_i' = cli_i + 1
            /\ UNCHANGED <<cli_pc, cli_exit, cli_errors>>
    /\ UNCHANGED <<cli_in, cli_walked, cli_archive>>
    /\ UNCHANGED notCli

\* converter.py 367-394: the walk returned; section, header and manifest
\* are built.
CliWalkDone ==
    /\ cli_pc = "walk"
    /\ cli_i = Len(cli_in.blocks) + 1
    /\ cli_walked' = TRUE
    /\ cli_pc' = "write"
    /\ UNCHANGED <<cli_in, cli_i, cli_exit, cli_archive, cli_errors>>
    /\ UNCHANGED notCli

\* converter.py 397: _write_hwpx creates the temporary archive and moves it
\* to the output path, or raises.
CliWrite ==
    /\ cli_pc = "write"
    /\ \E ok \in BOOLEAN :
           IF ok
           THEN /\ cli_archive' = "written"
                /\ cli_pc' = "exit"
                /\ UNCHANGED <<cli_exit, cli_errors>>
           ELSE /\ cli_archive' = "attempted"
                /\ CliExit(1, "Traceback: write")
    /\ UNCHANGED <<cli_in, cli_i, cli_walked>>
    /\ UNCHANGED notCli

CliNext ==
    \/ CliRead
    \/ CliParse
    \/ CliConstruct
    \/ CliWalkBlock
    \/ CliWalkDone
    \/ CliWrite

(***************************************************************************)
(* 8. Lists and the blocks nested in their items                           *)
(*    (_process_blocks, _handle_bullet_list, _handle_ordered_list and      *)
(*    their native variants)                                               *)
(***************************************************************************)
\* A document is followed along one path of nesting: containers from the
\* outside in, then the innermost block.  Every list on the path has two
\* items: a plain paragraph, and the next element of the path.  numberings
\* are the ids of the <hh:numbering> the reference header comes with.
MaxDepth == 3
ListTypes == {"BulletList", "OrderedList"}
ContainerTypes == ListTypes \cup {"BlockQuote"}
LeafTypes == {"Para", "CodeBlock", "Table"}

HeaderNumberings == { {}, {1}, {2, 5} }

Nesting(native, path, leaf, numberings) ==
    [native |-> native, path |-> path, leaf |-> leaf, numberings |-> numberings]

Nestings ==
    {Nesting(TRUE, p, l, n) : p \in SeqsUpTo(ContainerTypes, MaxDepth),
                              l \in LeafTypes, n \in HeaderNumberings}
      \cup {Nesting(FALSE, p, l, {}) : p \in SeqsUpTo(ContainerTypes, MaxDepth),
                                       l \in LeafTypes}

\* converter.py 1104-1144: the id of the new numbering definition is one
\* above the greatest id among the <hh:numbering> of the header.
CreateNumberingReusingMax(numberings) == MaxIdOver(0, numberings)

CreateNumbering(numberings) == MaxIdOver(0, numberings) + 1

\* The <hh:numbering> ids of the header tree: the reference header's and
\* those created so far.
NumberingIds(in, lists) ==
    in.numberings \cup {lists[n].num_id : n \in 1..Len(lists)}

\* converter.py 1023, 1075: a native list handler starts at position pos and
\* the given level by creating the list's numbering definition.
StartNativeList(in, lists, pos, level) ==
    Append(lists, [pos |-> pos, level |-> level,
                   num_id |-> CreateNumbering(NumberingIds(in, lists))])

\* converter.py 1028-1040, 1146-1164: the paragraph of a Para or Plain item
\* block, with a paragraph style that refers to the handler's num_id at the
\* handler's level.
ListPara(lists) ==
    [block |-> "ListPara", level |-> lists[Len(lists)].level,
     num_id |-> lists[Len(lists)].num_id, list |-> Len(lists)]

\* The block at position k of the path.
BlockAt(in, k) == IF k <= Len(in.path) THEN in.path[k] ELSE in.leaf

\* converter.py 1048, 1100: the indent level the native list handlers hand
\* to _process_blocks for an item block that is neither a paragraph nor a
\* list: the call passes no level, so the default of the parameter applies.
NativeItemIndent(level) == 0

\* converter.py 1014, 1078: the text-prefix handlers pass their own level.
BuiltinItemIndent(indent_level) == indent_level

LiInit ==
    /\ li_pc = "dispatch"
    /\ li_in \in Nestings
    /\ li_k = 1
    /\ li_level = 0
    /\ li_dispatched = <<>>
    /\ li_emitted = <<>>
    /\ li_lists = <<>>

\* An item block handed to the generic dispatcher by a list handler.
Dispatch(block, list_level, indent_level) ==
    [block |-> block, list_level |-> list_level, indent_level |-> indent_level]

\* converter.py 858-860: a block quote processes its children one level
\* deeper.
LiBlockQuote ==
    /\ li_pc = "dispatch"
    /\ li_k <= Len(li_in.path)
    /\ BlockAt(li_in, li_k) = "BlockQuote"
    /\ li_level' = li_level + 1
    /\ li_k' = li_k + 1
    /\ UNCHANGED <<li_pc, li_in, li_dispatched, li_emitted, li_lists>>
    /\ UNCHANGED notLi

\* converter.py 852-856, 1006-1019, 1052-1067: the dispatcher reaches a list.
\* With a reference header the native handler takes over at the same level;
\* otherwise every block of every item goes back through the dispatcher.
LiList ==
    /\ li_pc = "dispatch"
    /\ li_k <= Len(li_in.path)
    /\ BlockAt(li_in, li_k) \in ListTypes
    /\ li_k' = li_k + 1
    /\ IF li_in.native
       THEN /\ li_pc' = "native"
            /\ li_lists' = StartNativeList(li_in, li_lists, li_k, li_level)
            /\ li_emitted' = Append(li_emitted, ListPara(li_lists'))
            /\ UNCHANGED <<li_level, li_dispatched>>
       ELSE /\ li_level' = BuiltinItemIndent(li_level)
            /\ li_dispatched' =
                   IF BlockAt(li_in, li_k + 1) \in ListTypes \cup {"Para"}
                   THEN li_dispatched
                   ELSE Append(li_dispatched,
                               Dispatch(BlockAt(li_in, li_k + 1), li_level,
                                        BuiltinItemIndent(li_level)))
            /\ UNCHANGED <<li_pc, li_emitted, li_lists>>
    /\ UNCHANGED li_in
    /\ UNCHANGED notLi

\* converter.py 1025-1049, 1077-1101: one block of an item in a native list
\* handler.
LiNativeItem ==
    /\ li_pc = "native"
    /\ LET block == BlockAt(li_in, li_k) IN
         CASE block = "Para" ->
                /\ li_emitted' = Append(li_emitted, ListPara(li_lists))
                /\ li_pc' = "done"
                /\ UNCHANGED <<li_k, li_level, li_dispatched, li_lists>>
           [] block \in ListTypes ->
                /\ li_level' = li_level + 1
                /\ li_k' = li_k + 1
                /\ li_lists' = StartNativeList(li_in, li_lists, li_k, li_level + 1)
                /\ li_emitted' = Append(li_emitted, ListPara(li_lists'))
                /\ UNCHANGED <<li_pc, li_dispatched>>
           [] OTHER ->
                /\ li_dispatched' = Append(li_dispatched,
                       Dispatch(block, li_level, NativeItemIndent(li_level)))
                /\ li_level' = NativeItemIndent(li_level)
                /\ li_pc' = "dispatch"
                /\ UNCHANGED <<li_k, li_emitted, li_lists>>
    /\ UNCHANGED li_in
    /\ UNCHANGED notLi

\* converter.py 840-848, 862-863: the innermost block is rendered by the
\* dispatcher at its indent level.
LiLeaf ==
    /\ li_pc = "dispatch"
    /\ li_k = Len(li_in.path) + 1
    /\ li_emitted' = Append(li_emitted,
           [block |-> li_in.leaf, level |-> li_level, num_id |-> 0, list |-> 0])
    /\ li_pc' = "done"
    /\ UNCHANGED <<li_in, li_k, li_level, li_dispatched, li_lists>>
    /\ UNCHANGED notLi

LiNext ==
    \/ LiBlockQuote
    \/ LiList
    \/ LiNativeItem
    \/ LiLeaf

(***************************************************************************)
(* 9. Inline formatting and hyperlink fields (_process_inlines,            *)
(*    _create_field_begin, _create_field_end, _create_footnote)            *)
(***************************************************************************)
\* An inline list is written as its tokens in document order: "Str", the
\* opening of a wrapper (its type) and ")" closing the innermost open one.
\* Strong and Emph stand for the wrappers that add a format, Quoted for
\* those that add none; a Note holds blocks, here one paragraph.
MaxTokens == 6
WrapperTypes == {"Strong", "Emph", "Link", "Quoted", "Note"}
Tokens == WrapperTypes \cup {"Str", ")"}

\* Every prefix closes no more wrappers than it opened, and the whole
\* sequence closes all of them.
Opened(toks, m) == Cardinality({j \in 1..m : toks[j] \in WrapperTypes})
Closed(toks, m) == Cardinality({j \in 1..m : toks[j] = ")"})

WellNested(toks) ==
    /\ \A m \in 1..Len(toks) : Closed(toks, m) <= Opened(toks, m)
    /\ Closed(toks, Len(toks)) = Opened(toks, Len(toks))

InlineLists == {toks \in SeqsUpTo(Tokens, MaxTokens) : WellNested(toks)}

\* converter.py 586-655: what a wrapper adds to the active formats.
Modifiers(w) ==
    CASE w = "Strong" -> {"BOLD"}
      [] w = "Emph" -> {"ITALIC"}
      [] w = "Link" -> {"UNDERLINE", "COLOR_BLUE"}
      [] OTHER -> {}

ChildFormatsOwnOnly(w, active_formats) ==
    IF w = "Note" THEN {} ELSE Modifiers(w)

\* converter.py 586-655, 685-712: the active_formats argument of the
\* recursive call for the wrapper's content.  A footnote's blocks are
\* processed by _process_blocks, whose paragraphs start from no format
\* (1443, 534-545).
ChildFormats(w, active_formats) ==
    IF w = "Note" THEN {} ELSE active_formats \cup Modifiers(w)

\* One activation of _process_inlines: its active_formats parameter, and the
\* wrapper (type and position) whose content it processes.
Frame(w, at, active_formats) ==
    [w |-> w, at |-> at, active_formats |-> active_formats]

Run(at, active_formats) == [at |-> at, active_formats |-> active_formats]

InInit ==
    /\ in_pc = "walk"
    /\ in_tokens \in InlineLists
    /\ in_p = 1
    /\ in_stack = <<Frame("top", 0, {})>>
    /\ in_runs = <<>>
    /\ in_fields = <<>>
    /\ last_field_id = 0
    /\ in_next_id = 1

Top == in_stack[Len(in_stack)]

AtToken(toks) ==
    /\ in_pc = "walk"
    /\ in_p \in 1..Len(in_tokens)
    /\ in_tokens[in_p] \in toks

\* converter.py 559-564: a run in the style get_current_id gives for this
\* activation's active_formats.
InStr ==
    /\ AtToken({"Str"})
    /\ in_runs' = Append(in_runs, Run(in_p, Top.active_formats))
    /\ in_p' = in_p + 1
    /\ UNCHANGED <<in_pc, in_tokens, in_stack, in_fields, last_field_id,
                   in_next_id>>
    /\ UNCHANGED notIn

\* converter.py 586-598, 685-701: Strong, Emph and Quoted recurse into
\* their content; Quoted first emits the opening glyph in the current style.
InWrapper ==
    /\ AtToken({"Strong", "Emph", "Quoted"})
    /\ in_stack' = Append(in_stack,
           Frame(in_tokens[in_p], in_p,
                 ChildFormats(in_tokens[in_p], Top.active_formats)))
    /\ in_runs' = IF in_tokens[in_p] = "Quoted"
                  THEN Append(in_runs, Run(in_p, Top.active_formats))
                  ELSE in_runs
    /\ in_p' = in_p + 1
    /\ UNCHANGED <<in_pc, in_tokens, in_fields, last_field_id, in_next_id>>
    /\ UNCHANGED notIn

\* converter.py 639-651, 1404-1407: the field begin takes a new id and
\* stores it in self._last_field_id; the text is processed underlined and
\* in the link colour.
InLink ==
    /\ AtToken({"Link"})
    /\ in_fields' = Append(in_fields,
           [kind |-> "begin", id |-> in_next_id, link |-> in_p])
    /\ last_field_id' = in_next_id
    /\ in_next_id' = in_next_id + 1
    /\ in_stack' = Append(in_stack,
           Frame("Link", in_p, ChildFormats("Link", Top.active_formats)))
    /\ in_p' = in_p + 1
    /\ UNCHANGED <<in_pc, in_tokens, in_runs>>
    /\ UNCHANGED notIn

\* converter.py 662-664, 1441-1443: the blocks of a footnote are processed
\* by _process_blocks.
InNote ==
    /\ AtToken({"Note"})
    /\ in_stack' = Append(in_stack,
           Frame("Note", in_p, ChildFormats("Note", Top.active_formats)))
    /\ in_p' = in_p + 1
    /\ UNCHANGED <<in_pc, in_tokens, in_runs, in_fields, last_field_id,
                   in_next_id>>
    /\ UNCHANGED notIn

\* The recursive call returns to its caller, whose active_formats is what
\* it was.  converter.py 654, 1430-1432: after a Link's text the field end
\* refers to self._last_field_id; 696-699: after a Quoted's content the
\* closing glyph is emitted in the style computed before the recursion.
InReturn ==
    /\ AtToken({")"})
    /\ in_stack' = SubSeq(in_stack, 1, Len(in_stack) - 1)
    /\ in_fields' = IF Top.w = "Link"
                    THEN Append(in_fields,
                             [kind |-> "end", id |-> last_field_id,
                              link |-> Top.at])
                    ELSE in_fields
    /\ in_runs' = IF Top.w = "Quoted"
                  THEN Append(in_runs,
                           Run(Top.at, in_stack[Len(in_stack) - 1].active_formats))
                  ELSE in_runs
    /\ in_p' = in_p + 1
    /\ UNCHANGED <<in_pc, in_tokens, last_field_id, in_next_id>>
    /\ UNCHANGED notIn

\* converter.py 722: the outermost call returns.
InDone ==
    /\ in_pc = "walk"
    /\ in_p = Len(in_tokens) + 1
    /\ in_pc' = "done"
    /\ UNCHANGED <<in_tokens, in_p, in_stack, in_runs, in_fields,
                   last_field_id, in_next_id>>
    /\ UNCHANGED notIn

InNext ==
    \/ InStr
    \/ InWrapper
    \/ InLink
    \/ InNote
    \/ InReturn
    \/ InDone

(***************************************************************************)
(* Specifications: one per component, the others idle                      *)
(***************************************************************************)
LsIdle ==
    /\ ls_pc = "idle"
    /\ ls_in = [text |-> <<>>, char_height |-> CHAR_HEIGHT_NORMAL,
                horzsize |-> PAGE_TEXT_WIDTH]
    /\ ls_out = <<>>

TblIdle ==
    /\ tbl_pc = "idle"
    /\ tbl_in = [rows |-> <<>>, specs |-> 0]
    /\ col_cnt = 0
    /\ col_widths = <<>>
    /\ occupied_cells = {}
    /\ curr_row_addr = 0
    /\ curr_col_addr = 0
    /\ cell_idx = 1
    /\ tbl_cells = <<>>

CvIdle ==
    /\ cv_pc = "idle"
    /\ template = NoTemplate
    /\ RegistryIs(FreshRegistry(FALSE))
    /\ warnings = 0
    /\ last_call = NoCall
    /\ resolved = <<>>
    /\ doc = EmptyDoc
    /\ cv_i = 0
    /\ refs = {}
    /\ final = NoTables
    /\ body_parts = <<>>

IdIdle ==
    /\ id_pc = "idle"
    /\ para_id_counter = PARA_ID_SEED
    /\ clock = ClockStart
    /\ ticks = 0
    /\ inst = [i \in Instances |-> NoInstance]
    /\ para_issued = <<>>

PkIdle ==
    /\ pk_pc = "idle"
    /\ pk_in = [images |-> <<>>, dst |-> "absent"]
    /\ pk_i = 1
    /\ pics = <<>>
    /\ images = <<>>
    /\ src_file = File("archive", SourceEntries)
    /\ tmp_file = File("absent", <<>>)
    /\ dst_file = File("absent", <<>>)
    /\ pk_warned = {}
    /\ pk_raised = "no"

CliIdle ==
    /\ cli_pc = "idle"
    /\ cli_in = CliInput("empty", "none", <<>>)
    /\ cli_i = 1
    /\ cli_exit = 0
    /\ cli_walked = FALSE
    /\ cli_archive = "none"
    /\ cli_errors = <<>>

LiIdle ==
    /\ li_pc = "idle"
    /\ li_in = Nesting(FALSE, <<>>, "Para", {})
    /\ li_k = 1
    /\ li_level = 0
    /\ li_dispatched = <<>>
    /\ li_emitted = <<>>
    /\ li_lists = <<>>

InIdle ==
    /\ in_pc = "idle"
    /\ in_tokens = <<>>
    /\ in_p = 1
    /\ in_stack = <<>>
    /\ in_runs = <<>>
    /\ in_fields = <<>>
    /\ last_field_id = 0
    /\ in_next_id = 1

InitLineseg == LsInit /\ TblIdle /\ CvIdle /\ IdIdle /\ PkIdle /\ CliIdle /\ LiIdle
    /\ InIdle

SpecLineseg == InitLineseg /\ [][LsNext]_vars

InitTable == TblInit /\ LsIdle /\ CvIdle /\ IdIdle /\ PkIdle /\ CliIdle /\ LiIdle
    /\ InIdle

SpecTable == InitTable /\ [][TblNext]_vars

InitStyle == StyInit /\ LsIdle /\ TblIdle /\ IdIdle /\ PkIdle /\ CliIdle /\ LiIdle
    /\ InIdle

SpecStyle == InitStyle /\ [][StyNext]_vars

InitConvert == CvInit /\ LsIdle /\ TblIdle /\ IdIdle /\ PkIdle /\ CliIdle /\ LiIdle
    /\ InIdle

SpecConvert == InitConvert /\ [][CvNext]_vars

InitIds == IdInit /\ LsIdle /\ TblIdle /\ CvIdle /\ PkIdle /\ CliIdle /\ LiIdle
    /\ InIdle

SpecIds == InitIds /\ [][IdNext]_vars

InitPackage == PkInit /\ LsIdle /\ TblIdle /\ CvIdle /\ IdIdle /\ CliIdle /\ LiIdle
    /\ InIdle

SpecPackage == InitPackage /\ [][PkNext]_vars

InitCli ==
    CliInit /\ LsIdle /\ TblIdle /\ CvIdle /\ IdIdle /\ PkIdle /\ LiIdle
      /\ InIdle

SpecCli == InitCli /\ [][CliNext]_vars

InitList ==
    LiInit /\ LsIdle /\ TblIdle /\ CvIdle /\ IdIdle /\ PkIdle /\ CliIdle
      /\ InIdle

SpecList == InitList /\ [][LiNext]_vars

InitInline ==
    InInit /\ LsIdle /\ TblIdle /\ CvIdle /\ IdIdle /\ PkIdle /\ CliIdle
      /\ LiIdle

SpecInline == InitInline /\ [][InNext]_vars

(***************************************************************************)
(* Claims                                                                  *)
(***************************************************************************)
\* ---- claims about the style registry

CallKey(call) == <<call.base, call.mods>>

C2_DistinctClones ==
    \A k1, k2 \in DOMAIN resolved :
        (k1[1] = k2[1] /\ k1[2] # k2[2] /\ k1[2] # {} /\ k2[2] # {})
            => resolved[k1] # resolved[k2]

\* Both {BOLD} and {BOLD, ITALIC} were resolved from one base.
C2_Witness ==
    \E k1, k2 \in DOMAIN resolved :
        k1[1] = k2[1] /\ k1[2] = {"BOLD"} /\ k2[2] = {"BOLD", "ITALIC"}

\* The character-style ids in existence in the current state: those of the
\* table at construction (the template's, or the built-in heading and code
\* ids), those of the header tree now, and those handed out so far.
ExistingCharPrIds ==
    (IF use_reference
     THEN DOMAIN template.header.charPr \cup DOMAIN header_root.charPr
     ELSE HEADING_CHAR_PR_IDS \cup {CODE_CHAR_PR_ID})
        \cup {char_pr_cache[k] : k \in DOMAIN char_pr_cache}

C24_SupSubExclusive ==
    \A key \in DOMAIN char_pr_cache :
        LET node == CachedCharPr(Registry, key) IN
          /\ "SUPERSCRIPT" \in key[2] => node.supscript /\ ~node.subscript
          /\ ("SUBSCRIPT" \in key[2] /\ "SUPERSCRIPT" \notin key[2])
                 => node.subscript /\ ~node.supscript
          /\ ~(node.supscript /\ node.subscript)

\* In template mode SUPERSCRIPT was resolved from a base style that is a
\* subscript style: the clone is a superscript style only.
C24_Witness ==
    /\ use_reference
    /\ \E key \in DOMAIN char_pr_cache :
           /\ key[2] = {"SUPERSCRIPT"}
           /\ template.header.charPr[key[1]].subscript
           /\ CachedCharPr(Registry, key).supscript
           /\ ~CachedCharPr(Registry, key).subscript

\* ---- claims about the conversion

\* C3: once the document is written, every style id referenced from the
\* emitted content (style, paraPr, charPr, borderFill) is an entry of the
\* corresponding table of the written header, in built-in and in template
\* mode, for every document.
C3_RefsExist ==
    cv_pc = "done" => \A r \in refs : r[2] \in final[r[1]]

\* A finished template-mode conversion of a document with a heading whose
\* depth the template does not style.
C3_Witness ==
    /\ cv_pc = "done"
    /\ use_reference
    /\ \E i \in 1..Len(doc.blocks) :
           /\ doc.blocks[i].t = "Header"
           /\ (doc.blocks[i].level - 1) \notin DOMAIN dynamic_style_map

\* C4: whatever makes the reference document unusable (unreadable archive,
\* missing header entry, malformed header XML, non-numeric ids), the
\* constructor does not abort: it warns, leaves template mode and restores
\* the default style ids and the built-in maximum character-style id.
C4_DegradedFallsBack ==
    (template \in DegradedTemplates /\ cv_pc # "new") =>
        /\ cv_pc # "aborted"
        /\ warnings >= 1
        /\ ~use_reference
        /\ normal_style_id = 0 /\ normal_para_pr_id = 0 /\ normal_char_pr_id = 0
        /\ max_char_pr_id = Max(SetMax(HEADING_CHAR_PR_IDS), CODE_CHAR_PR_ID)

\* A conversion that went through with a reference document whose header
\* is not well-formed XML.
C4_Witness ==
    /\ template.name = "malformed_xml"
    /\ cv_pc = "done"
    /\ warnings = 1
    /\ ~use_reference

\* C23: in the finalized header the declared item count of the character
\* style, paragraph style and border/fill tables equals the number of their
\* entries, in template mode, in built-in mode and in built-in mode entered
\* by fallback from a failed template.
C23_ItemCntMatches ==
    cv_pc = "done" => final.itemCnt = final.entries

\* A template-mode conversion that allocated a character style was
\* finalized with matching counts.
C23_Witness ==
    /\ cv_pc = "done"
    /\ use_reference
    /\ char_pr_cache # <<>>
    /\ final.itemCnt = final.entries
    /\ final.entries.charPr > Cardinality(DOMAIN template.header.charPr)

\* The paragraphs among the strings of the body.
Paragraphs(parts) ==
    {i \in 1..Len(parts) : parts[i] \in {"text", "empty", "table"}}

\* C29: the body convert produces holds at least one paragraph; when title
\* block, table of contents and block walk emit no paragraph, exactly one
\* empty paragraph is emitted instead.
C29_BodyHasParagraph ==
    cv_pc = "done" =>
        /\ Paragraphs(body_parts) # {}
        /\ (\A i \in Paragraphs(body_parts) : body_parts[i] = "empty")
               => Cardinality(Paragraphs(body_parts)) = 1

\* A document of raw blocks only was converted to one empty paragraph.
C29_Witness ==
    /\ cv_pc = "done"
    /\ doc.blocks = <<Block("RawBlock", 0, {}), Block("RawBlock", 0, {})>>
    /\ ~doc.title /\ ~doc.subtitle /\ ~doc.byline
    /\ body_parts = <<"empty">>

\* The triple the reference header itself gives outline depth `depth`: the
\* first paragraph style marked with that outline level, joined to the first
\* style that refers to it.
OutlineTriples(h, depth) ==
    {<<h.styles[k].id, h.paraPr[i].id, h.styles[k].charPrIDRef>> :
        <<i, k>> \in
          {<<i, k>> \in (1..Len(h.paraPr)) \X (1..Len(h.styles)) :
              /\ h.paraPr[i].heading /\ h.paraPr[i].level = depth
              /\ \A j \in 1..(i - 1) :
                     ~(h.paraPr[j].heading /\ h.paraPr[j].level = depth)
              /\ h.styles[k].paraPrIDRef = h.paraPr[i].id
              /\ \A j \in 1..(k - 1) :
                     h.styles[j].paraPrIDRef # h.paraPr[i].id}}

\* C22: a heading of source level L is emitted, in template mode, with the
\* triple the template gives outline depth L-1 when it gives one, and
\* otherwise, as always in built-in mode, with the fixed table's entry for L
\* (zeros beyond level 6); handling it never aborts the conversion.
C22_HeadingTriple ==
    [][ AtBlock("Header") =>
          LET b == doc.blocks[cv_i]
              found == IF use_reference
                       THEN OutlineTriples(template.header, b.level - 1)
                       ELSE {}
              fixed == CASE b.level = 1 -> <<2, 2, 7>>
                         [] b.level = 2 -> <<3, 3, 8>>
                         [] b.level = 3 -> <<4, 4, 9>>
                         [] b.level = 4 -> <<5, 5, 0>>
                         [] b.level = 5 -> <<6, 6, 0>>
                         [] b.level = 6 -> <<7, 7, 0>>
                         [] OTHER -> <<0, 0, 0>>
              triple == IF found # {} THEN CHOOSE t \in found : TRUE ELSE fixed
          IN  /\ Cardinality(found) <= 1
              /\ cv_pc' = "blocks"
              /\ refs' = refs \cup
                     ParagraphRefs(triple[1], triple[2],
                                   GetCurrentId(Registry, triple[3], b.mods).ret)
      ]_vars

\* With the typical reference header, a level-1 heading took the template's
\* triple for depth 0 and a level-3 heading the fixed entry, depth 2 being
\* absent from the template.
C22_Witness ==
    /\ cv_pc = "done"
    /\ use_reference
    /\ template.name = "typical"
    /\ doc.blocks = <<Block("Header", 1, {}), Block("Header", 3, {})>>
    /\ <<"charPr", 5>> \in refs
    /\ <<"charPr", 9>> \in refs

\* C11: converting an empty block list gives a body with exactly one empty
\* paragraph and never no paragraph, whatever the metadata and the toc
\* option (the metadata's own paragraphs precede it).
C11_EmptyDocOneEmptyParagraph ==
    (cv_pc = "done" /\ doc.blocks = <<>>) =>
        /\ Len(body_parts) >= 1
        /\ Cardinality({i \in 1..Len(body_parts) : body_parts[i] = "empty"}) = 1

\* A finished conversion of no blocks, once with neither metadata nor toc.
C11_Witness ==
    /\ cv_pc = "done"
    /\ doc.blocks = <<>>
    /\ ~doc.title /\ ~doc.subtitle /\ ~doc.byline
    /\ body_parts = <<"empty">>

\* ---- claims about the id generators

StrictlyIncreasing(seq) == \A i, j \in 1..Len(seq) : i < j => seq[i] < seq[j]

WideIncreasing(seq) ==
    \A i, j \in 1..Len(seq) : i < j => WideLess(seq[i], seq[j])

\* C12: every value _next_para_id returns is greater than every value it
\* returned before, so the paragraph ids of one conversion (one instance) are
\* strictly increasing and pairwise distinct.
C12_ParaIdsIncrease ==
    /\ WideIncreasing(para_issued)
    /\ \A i \in Instances : WideIncreasing(inst[i].para_ids)
    /\ \A k \in 1..Len(para_issued) : WideLess(PARA_ID_SEED, para_issued[k])

\* Two instances each emitted two paragraphs.
C12_Witness ==
    \A i \in Instances : Len(inst[i].para_ids) = 2

\* C13: the object ids _unique_id hands out during one conversion are
\* strictly increasing, hence pairwise distinct.
C13_ObjectIdsUnique ==
    \A i \in Instances : StrictlyIncreasing(inst[i].object_ids)

\* One conversion drew two object ids.
C13_Witness ==
    \E i \in Instances : Len(inst[i].object_ids) = 2

\* C19: an instance's ids do not depend on the other instances of the
\* process: its first paragraph id is the one after the fixed seed.
C19_FreshInstanceStartsAtSeed ==
    \A i \in Instances :
        inst[i].para_ids # <<>> => inst[i].para_ids[1] = WideSucc(PARA_ID_SEED)

\* Both instances emitted paragraphs and appended images.
C19_Witness ==
    \A i \in Instances : inst[i].para_ids # <<>> /\ inst[i].images # <<>>

\* ---- claims about images and the package writer

ImageEntries(entries) ==
    {entries[n].img : n \in {j \in 1..Len(entries) : entries[j].name = "BinData"}}

\* The embed loop has dealt with image k.
EmbedPassed(k) ==
    \/ pk_pc \in {"move", "done"}
    \/ pk_pc = "images" /\ k < pk_i

Generated == {"Contents/section0.xml", "Contents/header.xml", "Contents/content.hpf"}

\* C14: an image whose file does not exist still gets its picture node (of
\* the default size when none is requested) and its entry in the image list;
\* when the archive is written a warning is printed for it, no binary entry
\* is written for it, and it never makes the writer raise.
C14_MissingImage ==
    /\ pk_pc # "walk" => Len(pics) = Len(pk_in.images)
    /\ \A k \in 1..Len(pk_in.images) :
           pk_in.images[k].at_walk = "missing" =>
               /\ k <= Len(pics) =>
                      /\ pics[k].binaryItemIDRef = k
                      /\ images[k].id = k
                      /\ pk_in.images[k].size = NoSize =>
                             pics[k].size = <<DEFAULT_IMAGE_SIZE, DEFAULT_IMAGE_SIZE>>
               /\ EmbedPassed(k) =>
                      /\ k \in pk_warned
                      /\ k \notin ImageEntries(tmp_file.entries)
               /\ pk_pc = "done" => k \notin ImageEntries(dst_file.entries)
               /\ (pk_raised = "image" => pk_i # k)

\* The archive was written for a document whose first image has no file and
\* requests no size.
C14_Witness ==
    /\ pk_pc = "done"
    /\ Len(pk_in.images) >= 1
    /\ pk_in.images[1].at_walk = "missing"
    /\ pk_in.images[1].size = NoSize

\* C15: when _write_hwpx fails, the temporary file is gone, the failure has
\* reached the caller and the file at the destination path is what it was
\* before the call; the destination only ever changes into the complete
\* archive.
C15_AllOrNothing ==
    /\ pk_pc = "failed" =>
           /\ tmp_file.state = "absent"
           /\ pk_raised # "no"
           /\ dst_file = File(pk_in.dst, <<>>)
    /\ dst_file.state \in {pk_in.dst, "new"}

\* A write into the temporary archive failed while an earlier output existed.
C15_Witness ==
    /\ pk_pc = "failed"
    /\ pk_raised = "write"
    /\ pk_in.dst = "prior"
    /\ dst_file.state = "prior"

C17_ImageFailuresSkipped ==
    /\ pk_raised # "image"
    /\ \A k \in 1..Len(pk_in.images) :
           (EmbedPassed(k) /\ pk_in.images[k].at_write # "ok") => k \in pk_warned

\* An archive written although the file of an image had gone.
C17_Witness ==
    /\ pk_pc = "done"
    /\ \E k \in 1..Len(pk_in.images) :
           /\ pk_in.images[k].at_walk = "ok"
           /\ pk_in.images[k].at_write = "gone"
           /\ k \in pk_warned

\* C27: the images with an item in the manifest are exactly the images with
\* a binary entry in the written archive, whatever the image list, images
\* without a resolvable source included.
C27_ManifestMatchesBinaries ==
    pk_pc = "done" =>
        UpdateContentHpf(images) = ImageEntries(dst_file.entries)

\* An archive written with two images, both listed and both embedded.
C27_Witness ==
    /\ pk_pc = "done"
    /\ Len(images) = 2
    /\ ImageEntries(dst_file.entries) = {1, 2}
    /\ UpdateContentHpf(images) = {1, 2}

\* ---- claims about the command line entry point

\* The input is empty, is not JSON, or is not a well-formed document tree.
FatalInput(in) ==
    \/ in.stdin # "json"
    \/ in.top # "object"
    \/ \E n \in 1..Len(in.blocks) : in.blocks[n] # "ok"

\* C18: a run on empty input, on input that is not JSON or on a malformed
\* document tree ends with a non-zero exit status and without any archive
\* having been created; an archive is only created after the whole tree was
\* walked without error.
C18_FatalInputAborts ==
    /\ cli_archive # "none" => cli_walked
    /\ (cli_pc = "exit" /\ FatalInput(cli_in)) =>
           /\ cli_exit # 0
           /\ cli_archive = "none"

\* A run on input that is not JSON ended with status 1 and no archive.
C18_Witness ==
    /\ cli_pc = "exit"
    /\ cli_in.stdin = "not_json"
    /\ cli_exit = 1
    /\ cli_archive = "none"

\* ---- claims about lists

\* C20: a block that is neither a paragraph nor a list and sits directly in
\* a list item is handed to the generic dispatcher with an indent level equal
\* to the level at which the enclosing list is rendered, with a reference
\* header (native lists) as without one.
C20_ItemBlockAtListLevel ==
    \A n \in 1..Len(li_dispatched) :
        li_dispatched[n].indent_level = li_dispatched[n].list_level

\* A code block in an item of a top-level native list was dispatched and
\* rendered.
C20_Witness ==
    /\ li_pc = "done"
    /\ li_in.native
    /\ li_in.leaf = "CodeBlock"
    /\ li_dispatched = <<Dispatch("CodeBlock", 0, 0)>>

Encloses(q, p) ==
    /\ q < p
    /\ in_tokens[q] \in WrapperTypes
    /\ \A m \in (q + 1)..(p - 1) :
           Cardinality({j \in (q + 1)..m : in_tokens[j] = ")"})
               <= Cardinality({j \in (q + 1)..m : in_tokens[j] \in WrapperTypes})

\* The wrappers around the node at p within its own paragraph: those opened
\* after the innermost footnote around p, if there is one.
WrappersAround(p) ==
    {q \in 1..Len(in_tokens) :
        /\ Encloses(q, p)
        /\ \A n \in 1..Len(in_tokens) :
               (in_tokens[n] = "Note" /\ Encloses(n, p)) => n < q}

C26_FieldEndMatchesBegin ==
    \A e \in 1..Len(in_fields) :
        in_fields[e].kind = "end" =>
            \E b \in 1..(e - 1) :
                /\ in_fields[b].kind = "begin"
                /\ in_fields[b].link = in_fields[e].link
                /\ in_fields[b].id = in_fields[e].id

\* Two links one after the other: each end refers to its own begin.
C26_Witness ==
    /\ in_pc = "done"
    /\ in_tokens = <<"Link", "Str", ")", "Link", ")">>
    /\ in_fields = << [kind |-> "begin", id |-> 1, link |-> 1],
                      [kind |-> "end", id |-> 1, link |-> 1],
                      [kind |-> "begin", id |-> 2, link |-> 4],
                      [kind |-> "end", id |-> 2, link |-> 4] >>

\* ---- claims about the estimator

HasFirst(seg) == (seg.flags \div FLAG_FIRST) % 2 = 1
HasLast(seg) == (seg.flags \div FLAG_LAST) % 2 = 1

\* The width the code has accumulated when it tests character i (1-based):
\* the widths of the characters from the start of the segment holding i.
SegStartOf(i) ==
    SetMax({ls_out[k].textpos : k \in {j \in 1..Len(ls_out) : ls_out[j].textpos < i}})

RECURSIVE WidthOfRun(_, _)
WidthOfRun(from, to) ==
    IF from > to THEN 0
    ELSE CharWidth(ls_in.text[to], ls_in.char_height) + WidthOfRun(from, to - 1)

\* C5: compute_lineseg_xml returns a non-empty sequence of segments with
\* strictly increasing offsets starting at 0, exactly one segment flagged
\* "first" and exactly one "last"; a single segment (also for empty text)
\* carries first+last, and interior segments carry no flag bits.
C5_SegmentsWellFormed ==
    ls_pc = "done" =>
        /\ Len(ls_out) >= 1
        /\ ls_out[1].textpos = 0
        /\ \A k \in 1..(Len(ls_out) - 1) : ls_out[k].textpos < ls_out[k + 1].textpos
        /\ Cardinality({k \in 1..Len(ls_out) : HasFirst(ls_out[k])}) = 1
        /\ Cardinality({k \in 1..Len(ls_out) : HasLast(ls_out[k])}) = 1
        /\ HasFirst(ls_out[1])
        /\ HasLast(ls_out[Len(ls_out)])
        /\ (Len(ls_out) = 1 => ls_out[1].flags = FLAG_FIRST_LAST)
        /\ (ls_in.text = <<>> => Len(ls_out) = 1)
        /\ \A k \in 2..(Len(ls_out) - 1) : ls_out[k].flags = 0

C5_Witness ==
    /\ ls_pc = "done"
    /\ Len(ls_out) >= 3
    /\ ls_in.text # <<>>

C30_SegmentsJustOverflow ==
    (ls_pc = "done" /\ ls_in.text # <<>> /\ ls_in.horzsize > 0) =>
        /\ \A k \in 1..(Len(ls_out) - 1) :
               /\ WidthOfRun(ls_out[k].textpos + 1, ls_out[k + 1].textpos)
                      > ls_in.horzsize
               /\ WidthOfRun(ls_out[k].textpos + 1, ls_out[k + 1].textpos - 1)
                      <= ls_in.horzsize
        /\ ls_out[Len(ls_out)].textpos < Len(ls_in.text)

\* Three segments on a positive width, one of them of two characters.
C30_Witness ==
    /\ ls_pc = "done"
    /\ ls_in.horzsize > 0
    /\ Len(ls_out) = 3
    /\ ls_out[2].textpos = 2

\* ---- claims about the table engine

\* The coordinates claimed by the k-th emitted cell (cellAddr x cellSpan).
CellCoords(k) ==
    {<<tbl_cells[k].rowAddr + r, tbl_cells[k].colAddr + c>> :
        r \in 0..(tbl_cells[k].rowSpan - 1), c \in 0..(tbl_cells[k].colSpan - 1)}

GridCoords(nrows, ncols) == (0..(nrows - 1)) \X (0..(ncols - 1))

CellIndex(rows) == {<<r, k>> \in (1..Len(rows)) \X (1..2) : k <= Len(rows[r])}

RECURSIVE RowArea(_)
RowArea(row) ==
    IF row = <<>> THEN 0
    ELSE row[1].rowspan * row[1].colspan + RowArea(Tail(row))

RECURSIVE RowColSpans(_)
RowColSpans(row) ==
    IF row = <<>> THEN 0 ELSE row[1].colspan + RowColSpans(Tail(row))

RECURSIVE GridArea(_)
GridArea(rows) ==
    IF rows = <<>> THEN 0 ELSE RowArea(rows[1]) + GridArea(Tail(rows))

\* The spans are well-formed: the declared cells, each anchored in its own
\* row and in declared order from left to right, tile the rows x ncols
\* rectangle (some assignment of columns makes them disjoint and covering).
\* The first two conjuncts on sizes follow from the tiling (the first row is
\* covered by its own cells; the areas add up) and are stated first so that
\* the assignments are only searched when they can exist.
WellFormed(rows, ncols) ==
    /\ rows # <<>>
    /\ ncols >= 1
    /\ RowColSpans(rows[1]) = ncols
    /\ GridArea(rows) = Len(rows) * ncols
    /\ \E col \in [CellIndex(rows) -> 0..(ncols - 1)] :
         LET coords(i) ==
                 {<<i[1] - 1 + r, col[i] + c>> :
                     r \in 0..(rows[i[1]][i[2]].rowspan - 1),
                     c \in 0..(rows[i[1]][i[2]].colspan - 1)}
         IN  /\ \A i \in CellIndex(rows) : coords(i) \subseteq GridCoords(Len(rows), ncols)
             /\ \A i, j \in CellIndex(rows) :
                    /\ (i[1] = j[1] /\ i[2] < j[2]) => col[i] < col[j]
                    /\ i # j => coords(i) \cap coords(j) = {}
             /\ UNION {coords(i) : i \in CellIndex(rows)} = GridCoords(Len(rows), ncols)

NoTwoCellsOverlap ==
    \A i, j \in 1..Len(tbl_cells) : i < j => CellCoords(i) \cap CellCoords(j) = {}

Scenario2x2 ==
    << <<[rowspan |-> 1, colspan |-> 2]>>,
       <<[rowspan |-> 1, colspan |-> 1], [rowspan |-> 1, colspan |-> 1]>> >>

\* C7: a cell's actual column is the first column at or after the row's
\* cursor whose coordinate in the current row is free; the cursor starts at 0
\* in every row and moves to the placed cell's column plus its column span.
\* In the 2x2 scenario (row 1 one cell of colspan 2, row 2 two cells) the
\* second row's cells get columns 0 and 1.
C7_FirstFreeColumn ==
    /\ [][ /\ (Len(tbl_cells') = Len(tbl_cells) + 1) =>
                LET c == tbl_cells'[Len(tbl_cells')]
                IN  /\ c.rowAddr = curr_row_addr
                    /\ c.colAddr >= curr_col_addr
                    /\ <<curr_row_addr, c.colAddr>> \notin occupied_cells
                    /\ \A x \in curr_col_addr..(c.colAddr - 1) :
                           <<curr_row_addr, x>> \in occupied_cells
                    /\ curr_col_addr' = c.colAddr + c.colSpan
           /\ (curr_row_addr' # curr_row_addr) => curr_col_addr' = 0
         ]_vars
    /\ [](tbl_pc = "row" /\ tbl_cells = <<>> => curr_col_addr = 0)
    /\ []((tbl_pc = "done" /\ tbl_in.rows = Scenario2x2) =>
             /\ Len(tbl_cells) = 3
             /\ tbl_cells[2].rowAddr = 1 /\ tbl_cells[2].colAddr = 0
             /\ tbl_cells[3].rowAddr = 1 /\ tbl_cells[3].colAddr = 1)

\* A cell that opens its row was pushed right past a coordinate claimed from
\* a row above.
C7_Witness ==
    /\ tbl_pc = "done"
    /\ \E k \in 2..Len(tbl_cells) :
          /\ tbl_cells[k - 1].rowAddr # tbl_cells[k].rowAddr
          /\ tbl_cells[k].colAddr > 0

\* C8 (as claimed): for all table grids, whatever the spans, no coordinate is
\* claimed by two distinct declared cells.
C8_NoOverlapAnyGrid == NoTwoCellsOverlap

\* C8 (amended): when the spans are well-formed, no coordinate is claimed
\* by two distinct declared cells.
C8_NoOverlapWellFormed ==
    (tbl_pc \in {"row", "done"} /\ WellFormed(tbl_in.rows, col_cnt))
        => NoTwoCellsOverlap

C8_Witness ==
    /\ tbl_pc = "done"
    /\ WellFormed(tbl_in.rows, col_cnt)
    /\ \E k \in 1..Len(tbl_cells) : tbl_cells[k].rowSpan = 2 /\ tbl_cells[k].colAddr > 0
    /\ \E k \in 1..Len(tbl_cells) : tbl_cells[k].rowAddr = 1

\* C9: when the spans are well-formed, the occupied-cell set after all rows
\* is exactly {0..rows-1} x {0..columns-1}.
C9_ExactCover ==
    (tbl_pc = "done" /\ WellFormed(tbl_in.rows, col_cnt))
        => occupied_cells = GridCoords(Len(tbl_in.rows), col_cnt)

C9_Witness ==
    /\ tbl_pc = "done"
    /\ WellFormed(tbl_in.rows, col_cnt)
    /\ \E k \in 1..Len(tbl_cells) : tbl_cells[k].rowSpan = 2
    /\ \E k \in 1..Len(tbl_cells) : tbl_cells[k].colSpan = 2
    /\ col_cnt = 3

\* C10: the column widths sum to the page text width, each is floor(W/n) or
\* floor(W/n)+1, the leftmost (W mod n) columns get the extra unit, and a
\* cell's width is the sum of the widths of the columns it spans (a spanned
\* column beyond the declared ones counting as floor(W/n)).
C10_ColumnWidths ==
    tbl_pc \in {"row", "done"} =>
        /\ Len(col_widths) = col_cnt
        /\ SumSeq(col_widths) = PAGE_TEXT_WIDTH
        /\ \A i \in 1..col_cnt :
               col_widths[i] = (PAGE_TEXT_WIDTH \div col_cnt)
                               + (IF i <= PAGE_TEXT_WIDTH % col_cnt THEN 1 ELSE 0)
        /\ \A k \in 1..Len(tbl_cells) :
               LET inside == {x \in tbl_cells[k].colAddr..(tbl_cells[k].colAddr + tbl_cells[k].colSpan - 1) :
                                 x < col_cnt}
                   extra == Cardinality({x \in inside : x < PAGE_TEXT_WIDTH % col_cnt})
               IN  tbl_cells[k].width =
                       tbl_cells[k].colSpan * (PAGE_TEXT_WIDTH \div col_cnt) + extra

C10_Witness ==
    /\ tbl_pc = "done"
    /\ col_cnt = 6
    /\ \E k \in 1..Len(tbl_cells) :
          /\ tbl_cells[k].colSpan = 2
          /\ tbl_cells[k].colAddr = 3
          /\ tbl_cells[k].width = 2 * (PAGE_TEXT_WIDTH \div 6) + 1

====
